---- MODULE Spec2Model ----
(***************************************************************************)
(* pytest-describe-beautifully: the describe tree (model.py), the tree     *)
(* collector (collector.py) and the name helpers (naming.py).              *)
(*                                                                         *)
(* Representation.                                                         *)
(*   - A DescribeNode object is named by its nodeid: build_from_items      *)
(*     creates at most one object per nodeid (the `nodeid in self._nodes`  *)
(*     test) and never replaces an entry of `_nodes`, so nodeid and object *)
(*     identity coincide.  `nodes` is the `_nodes` dict together with the  *)
(*     fields of the objects it holds; `children` and `roots` hold nodeids.*)
(*   - An optional value (None or an object) is a sequence of length 0     *)
(*     or 1: <<>> is None.                                                 *)
(*   - A str that the code takes apart (a node name) is a sequence of      *)
(*     one-character strings; other strs are TLA+ strings.                 *)
(*   - A duration is a natural number of milliseconds.                     *)
(***************************************************************************)
EXTENDS Naturals, Sequences, FiniteSets, TLC

VARIABLES
    nodes,           \* TreeCollector._nodes: nodeid -> DescribeNode
    roots,           \* TreeCollector.tree.roots: sequence of nodeids
    slow_threshold,  \* TreeCollector.tree.slow_threshold (milliseconds)
    seen,            \* history: the nodeids of the links build_from_items did
                     \* not skip, in the order in which it first met them
    call,            \* the call in progress: the operation, its argument and
                     \* whether it has run ("entry" before, "return" after)
    reporter,        \* BeautifulTerminalReporter: expand_all, no_fixtures
                     \* and _current_stack (a sequence of nodeids)
    tw,              \* the lines written to the terminal writer, in order
    config,          \* the pytest config: the options of the command line,
                     \* the names registered with its pluginmanager and the
                     \* attributes the plugin stores on it
    files,           \* the files written: path -> content
    runner           \* pytest's runtestprotocol: the nodeid of each test
                     \* that has been collected -> the phase of its next
                     \* report ("done" after the teardown report)

\* What is outside the collector.
env == <<reporter, tw, config, files, runner>>

vars == <<nodes, roots, slow_threshold, seen, call, reporter, tw, config,
          files, runner>>

(***************************************************************************)
(* Bounds of the model.                                                    *)
(***************************************************************************)
MaxChainLen == 3     \* longest listchain() handed to build_from_items
MaxDuration == 2     \* largest report.duration, in milliseconds
MaxFixtures == 2     \* longest fixturenames of a link classified on its own
MaxLines == 2        \* lines on the terminal after which no report is sent
MaxNameLen == 3      \* characters of a name after its prefix
MaxHeaderLines == 5  \* lines on the terminal after which SpecHeaders sends
                     \* no report

(***************************************************************************)
(* model.py: TestOutcome, NodeType, TestResult, DescribeNode.              *)
(***************************************************************************)
PASSED  == "passed"
FAILED  == "failed"
SKIPPED == "skipped"
XFAILED == "xfailed"
XPASSED == "xpassed"
ERROR   == "error"
PENDING == "pending"

TestOutcome == {PASSED, FAILED, SKIPPED, XFAILED, XPASSED, ERROR, PENDING}

FILE     == "file"
DESCRIBE == "describe"
TEST     == "test"

NodeType == {FILE, DESCRIBE, TEST}

\* TestResult(fixture_names=...) with the dataclass defaults.
TestResult(fixture_names) ==
    [outcome |-> PENDING, duration |-> 0, longrepr |-> "",
     sections |-> <<>>, fixture_names |-> fixture_names]

\* DescribeNode(name=, display_name=, docstring=, node_type=, nodeid=) with
\* the dataclass defaults children = [] and result = None.
DescribeNode(name, display_name, docstring, node_type, nodeid) ==
    [name |-> name, display_name |-> display_name, docstring |-> docstring,
     node_type |-> node_type, nodeid |-> nodeid,
     children |-> <<>>, result |-> <<>>]

\* TreeCollector.__init__'s default slow_threshold, 0.5 s.
DefaultSlowThreshold == 500

(***************************************************************************)
(* naming.py.  A name is a sequence of characters.                         *)
(***************************************************************************)
UpperCase ==
    {"A","B","C","D","E","F","G","H","I","J","K","L","M",
     "N","O","P","Q","R","S","T","U","V","W","X","Y","Z"}

LowerPrefix == <<"d","e","s","c","r","i","b","e","_">>
UpperPrefix == <<"D","e","s","c","r","i","b","e","_">>

\* str.startswith
StartsWith(s, p) ==
    /\ Len(s) >= Len(p)
    /\ SubSeq(s, 1, Len(p)) = p

\* str.replace("_", " ")
ReplaceUnderscores(s) ==
    [i \in 1..Len(s) |-> IF s[i] = "_" THEN " " ELSE s[i]]

\* The prefix loop without its break: both prefixes are stripped in turn.
MutStripPrefixNoBreak(name) ==
    LET once == IF StartsWith(name, LowerPrefix)
                THEN SubSeq(name, Len(LowerPrefix) + 1, Len(name))
                ELSE name
    IN  IF StartsWith(once, UpperPrefix)
        THEN SubSeq(once, Len(UpperPrefix) + 1, Len(once))
        ELSE once

\* s[len(prefix):] for the first of the two prefixes that s starts with.
StripPrefix(name) ==
    IF StartsWith(name, LowerPrefix)
    THEN SubSeq(name, Len(LowerPrefix) + 1, Len(name))
    ELSE IF StartsWith(name, UpperPrefix)
         THEN SubSeq(name, Len(UpperPrefix) + 1, Len(name))
         ELSE name

humanize_describe_name(name) ==
    LET stripped == StripPrefix(name)
    IN  IF stripped = <<>>
        THEN name
        ELSE IF stripped[1] \in UpperCase
                /\ \A i \in 1..Len(stripped) : stripped[i] # "_"
             THEN stripped
             ELSE ReplaceUnderscores(stripped)

humanize_test_name(name) == ReplaceUnderscores(name)

(***************************************************************************)
(* collector.py: the chain links (pytest nodes) handed to the collector.   *)
(* A link is what the collector can observe of a pytest node:              *)
(*   nodeid, name    link.nodeid, link.name                                *)
(*   attrs           the attribute names for which hasattr(link, a) holds  *)
(*   describe_block  isinstance(link, DescribeBlock)                       *)
(*   type_name       type(link).__name__                                   *)
(*   funcobj_doc, obj_doc, function_doc                                    *)
(*                   inspect.getdoc() of the attribute, "" when it is None *)
(*   fixturenames    link.fixturenames                                     *)
(***************************************************************************)
BUILTIN_FIXTURES ==
    {"request", "pytestconfig", "tmp_path", "tmp_path_factory", "capsys",
     "capfd", "capsysbinary", "capfdbinary", "caplog", "monkeypatch",
     "recwarn", "doctest_namespace", "cache", "record_property",
     "record_testsuite_property", "record_xml_attribute", "pytester",
     "testdir"}

\* Whether `from pytest_describe.plugin import DescribeBlock` succeeds.
\* pytest-describe is a dependency of the plugin.
DescribeImportable == TRUE

_is_describe_block(link) ==
    IF DescribeImportable
    THEN link.describe_block
    ELSE link.type_name = "DescribeBlock"

\* Mutant of FilterFixtures: the names that are kept come out in reverse
\* order.
RECURSIVE MutFilterFixturesReversed(_)
MutFilterFixturesReversed(xs) ==
    IF xs = <<>>
    THEN <<>>
    ELSE IF Head(xs) \in BUILTIN_FIXTURES
         THEN MutFilterFixturesReversed(Tail(xs))
         ELSE MutFilterFixturesReversed(Tail(xs)) \o <<Head(xs)>>

\* [f for f in xs if f not in BUILTIN_FIXTURES]
RECURSIVE FilterFixtures(_)
FilterFixtures(xs) ==
    IF xs = <<>>
    THEN <<>>
    ELSE IF Head(xs) \in BUILTIN_FIXTURES
         THEN FilterFixtures(Tail(xs))
         ELSE <<Head(xs)>> \o FilterFixtures(Tail(xs))

\* What _classify_link returns when the link is skipped (None).
SkipLink ==
    [skip |-> TRUE, node_type |-> "", display_name |-> <<>>,
     docstring |-> "", fixture_names |-> <<>>]

Classified(node_type, display_name, docstring, fixture_names) ==
    [skip |-> FALSE, node_type |-> node_type, display_name |-> display_name,
     docstring |-> docstring, fixture_names |-> fixture_names]

\* getattr(link, "funcobj", None) or getattr(link, "obj", None), then
\* (inspect.getdoc(doc_src) or "") if doc_src else "".
DescribeDocstring(link) ==
    IF "funcobj" \in link.attrs
    THEN link.funcobj_doc
    ELSE IF "obj" \in link.attrs
         THEN link.obj_doc
         ELSE ""

\* Mutant of _classify_link: a link with path is skipped when it has
\* reportinfo and is a FILE when it has none.
MutClassifyReportinfoSkips(link) ==
    IF "fspath" \in link.attrs /\ "collect" \in link.attrs
    THEN IF _is_describe_block(link)
         THEN Classified(DESCRIBE, humanize_describe_name(link.name),
                         DescribeDocstring(link), <<>>)
         ELSE IF "path" \in link.attrs /\ "reportinfo" \in link.attrs
              THEN SkipLink
              ELSE IF "path" \in link.attrs
                   THEN Classified(FILE, link.name, "", <<>>)
                   ELSE SkipLink
    ELSE IF "function" \in link.attrs
         THEN Classified(TEST, humanize_test_name(link.name),
                         link.function_doc,
                         IF "fixturenames" \in link.attrs
                         THEN FilterFixtures(link.fixturenames)
                         ELSE <<>>)
         ELSE SkipLink

\* Mutant of _classify_link: the function attribute is tested first.
MutClassifyFunctionFirst(link) ==
    IF "function" \in link.attrs
    THEN Classified(TEST, humanize_test_name(link.name),
                    link.function_doc,
                    IF "fixturenames" \in link.attrs
                    THEN FilterFixtures(link.fixturenames)
                    ELSE <<>>)
    ELSE IF "fspath" \in link.attrs /\ "collect" \in link.attrs
         THEN IF _is_describe_block(link)
              THEN Classified(DESCRIBE, humanize_describe_name(link.name),
                              DescribeDocstring(link), <<>>)
              ELSE IF "path" \in link.attrs /\ "reportinfo" \notin link.attrs
                   THEN SkipLink
                   ELSE IF "path" \in link.attrs
                        THEN Classified(FILE, link.name, "", <<>>)
                        ELSE SkipLink
         ELSE SkipLink

\* Mutant of _classify_link: a collector without path is a FILE.
MutClassifyPathlessIsFile(link) ==
    IF "fspath" \in link.attrs /\ "collect" \in link.attrs
    THEN IF _is_describe_block(link)
         THEN Classified(DESCRIBE, humanize_describe_name(link.name),
                         DescribeDocstring(link), <<>>)
         ELSE IF "path" \in link.attrs /\ "reportinfo" \notin link.attrs
              THEN SkipLink
              ELSE Classified(FILE, link.name, "", <<>>)
    ELSE IF "function" \in link.attrs
         THEN Classified(TEST, humanize_test_name(link.name),
                         link.function_doc,
                         IF "fixturenames" \in link.attrs
                         THEN FilterFixtures(link.fixturenames)
                         ELSE <<>>)
         ELSE SkipLink

_classify_link(link) ==
    IF "fspath" \in link.attrs /\ "collect" \in link.attrs
    THEN IF _is_describe_block(link)
         THEN Classified(DESCRIBE, humanize_describe_name(link.name),
                         DescribeDocstring(link), <<>>)
         ELSE IF "path" \in link.attrs /\ "reportinfo" \notin link.attrs
              THEN SkipLink
              ELSE IF "path" \in link.attrs
                   THEN Classified(FILE, link.name, "", <<>>)
                   ELSE SkipLink
    ELSE IF "function" \in link.attrs
         THEN Classified(TEST, humanize_test_name(link.name),
                         link.function_doc,
                         IF "fixturenames" \in link.attrs
                         THEN FilterFixtures(link.fixturenames)
                         ELSE <<>>)
         ELSE SkipLink

(***************************************************************************)
(* The pytest nodes that the chains are made of.                           *)
(***************************************************************************)
\* The attributes a pytest Session, Module, DescribeBlock and Function expose.
SessionLink ==
    [nodeid |-> "", name |-> <<>>,
     attrs |-> {"fspath", "collect", "path"},
     describe_block |-> FALSE, type_name |-> "Session",
     funcobj_doc |-> "", obj_doc |-> "", function_doc |-> "",
     fixturenames |-> <<>>]

ModuleLink(nodeid, name) ==
    [nodeid |-> nodeid, name |-> name,
     attrs |-> {"fspath", "collect", "path", "reportinfo", "obj"},
     describe_block |-> FALSE, type_name |-> "Module",
     funcobj_doc |-> "", obj_doc |-> "module doc", function_doc |-> "",
     fixturenames |-> <<>>]

DescribeLink(nodeid, name, doc) ==
    [nodeid |-> nodeid, name |-> name,
     attrs |-> {"fspath", "collect", "path", "reportinfo", "funcobj", "obj"},
     describe_block |-> TRUE, type_name |-> "DescribeBlock",
     funcobj_doc |-> doc, obj_doc |-> "", function_doc |-> "",
     fixturenames |-> <<>>]

FunctionLink(nodeid, name, doc, fixturenames) ==
    [nodeid |-> nodeid, name |-> name,
     attrs |-> {"fspath", "path", "reportinfo", "obj", "function",
                "fixturenames"},
     describe_block |-> FALSE, type_name |-> "Function",
     funcobj_doc |-> "", obj_doc |-> doc, function_doc |-> doc,
     fixturenames |-> fixturenames]

\* A collector that has fspath and collect but no path, and is no describe
\* block.
PathlessLink(nodeid, name) ==
    [nodeid |-> nodeid, name |-> name,
     attrs |-> {"fspath", "collect", "reportinfo", "obj"},
     describe_block |-> FALSE, type_name |-> "SomeCollector",
     funcobj_doc |-> "", obj_doc |-> "", function_doc |-> "",
     fixturenames |-> <<>>]

\* The pytest nodes of the session.  A chain holds references to them.
PytestNodes ==
    [S  |-> SessionLink,
     W  |-> PathlessLink("f.py::weird", <<"w", "e", "i", "r", "d">>),
     F  |-> ModuleLink("f.py", <<"f", ".", "p", "y">>),
     G  |-> ModuleLink("g.py", <<"g", ".", "p", "y">>),
     D  |-> DescribeLink("f.py::describe_a_b",
                         LowerPrefix \o <<"a", "_", "b">>, "A b."),
     T1 |-> FunctionLink("f.py::describe_a_b::it_x",
                         <<"i", "t", "_", "x">>, "", <<"request", "db">>),
     T2 |-> FunctionLink("f.py::describe_a_b::it_y",
                         <<"i", "t", "_", "y">>, "Y.", <<>>),
     T3 |-> FunctionLink("g.py::it_z",
                         <<"i", "t", "_", "z">>, "", <<>>)]

Links == DOMAIN PytestNodes

NodeIds == {PytestNodes[l].nodeid : l \in Links}

\* item.listchain(): the pytest nodes a chain of references stands for.
listchain(item) == [i \in 1..Len(item) |-> PytestNodes[item[i]]]

(***************************************************************************)
(* collector.py: build_from_items.  A collector state is a record          *)
(* [nodes, roots]; `parent` is parent_node (<<>> for None).                *)
(***************************************************************************)
\* Mutant of BuildLink: a nodeid that is already in _nodes is classified and
\* created again.
MutBuildLinkNoReuse(st, parent, link) ==
    LET nodeid == link.nodeid
        result == _classify_link(link)
    IN  IF result.skip
        THEN [nodes |-> st.nodes, roots |-> st.roots, parent |-> parent]
        ELSE LET fresh == DescribeNode(link.name, result.display_name,
                                       result.docstring, result.node_type,
                                       nodeid)
                 node  == IF result.node_type = TEST
                          THEN [fresh EXCEPT !.result =
                                   <<TestResult(result.fixture_names)>>]
                          ELSE fresh
                 registered == (nodeid :> node) @@ st.nodes
             IN  IF parent # <<>>
                 THEN [nodes |-> [registered EXCEPT
                                     ![parent[1]].children = Append(@, nodeid)],
                       roots |-> st.roots,
                       parent |-> <<nodeid>>]
                 ELSE IF result.node_type = FILE
                      THEN [nodes |-> registered,
                            roots |-> Append(st.roots, nodeid),
                            parent |-> <<nodeid>>]
                      ELSE [nodes |-> registered,
                            roots |-> st.roots,
                            parent |-> <<nodeid>>]

\* Mutant of BuildLink: a node that is reused is appended to the children of
\* the current parent again.
MutBuildLinkRelinks(st, parent, link) ==
    LET nodeid == link.nodeid
    IN  IF nodeid \in DOMAIN st.nodes
        THEN [nodes |-> IF parent # <<>>
                        THEN [st.nodes EXCEPT
                                 ![parent[1]].children = Append(@, nodeid)]
                        ELSE st.nodes,
              roots |-> st.roots,
              parent |-> <<nodeid>>]
        ELSE LET result == _classify_link(link)
             IN  IF result.skip
                 THEN [nodes |-> st.nodes, roots |-> st.roots, parent |-> parent]
                 ELSE LET fresh == DescribeNode(link.name, result.display_name,
                                                result.docstring, result.node_type,
                                                nodeid)
                          node  == IF result.node_type = TEST
                                   THEN [fresh EXCEPT !.result =
                                            <<TestResult(result.fixture_names)>>]
                                   ELSE fresh
                          registered == st.nodes @@ (nodeid :> node)
                      IN  IF parent # <<>>
                          THEN [nodes |-> [registered EXCEPT
                                              ![parent[1]].children =
                                                  Append(@, nodeid)],
                                roots |-> st.roots,
                                parent |-> <<nodeid>>]
                          ELSE IF result.node_type = FILE
                               THEN [nodes |-> registered,
                                     roots |-> Append(st.roots, nodeid),
                                     parent |-> <<nodeid>>]
                               ELSE [nodes |-> registered,
                                     roots |-> st.roots,
                                     parent |-> <<nodeid>>]

\* Mutant of ReuseNode: a reused node that no node and no root sequence holds
\* is appended to the children of the current parent.
MutReuseNodeAdoptsOrphan(st, parent, nodeid) ==
    LET placed == \/ \E i \in 1..Len(st.roots) : st.roots[i] = nodeid
                  \/ \E p \in DOMAIN st.nodes :
                        \E i \in 1..Len(st.nodes[p].children) :
                            st.nodes[p].children[i] = nodeid
    IN  [nodes |-> IF parent # <<>> /\ ~placed /\ parent[1] # nodeid
                   THEN [st.nodes EXCEPT
                            ![parent[1]].children = Append(@, nodeid)]
                   ELSE st.nodes,
         roots |-> st.roots,
         parent |-> <<nodeid>>]

\* Mutant of ReuseNode: a reused node is appended to the children of the
\* current parent unless that parent already holds it.
MutReuseNodeLinksUnderParent(st, parent, nodeid) ==
    [nodes |-> IF /\ parent # <<>>
                  /\ parent[1] # nodeid
                  /\ \A i \in 1..Len(st.nodes[parent[1]].children) :
                        st.nodes[parent[1]].children[i] # nodeid
               THEN [st.nodes EXCEPT
                        ![parent[1]].children = Append(@, nodeid)]
               ELSE st.nodes,
     roots |-> st.roots,
     parent |-> <<nodeid>>]

\* Mutant of ReuseNode: a reused test starts again with a new TestResult.
MutReuseNodeResetsResult(st, parent, nodeid) ==
    [nodes |-> IF st.nodes[nodeid].result # <<>>
               THEN [st.nodes EXCEPT ![nodeid].result =
                        <<TestResult(@[1].fixture_names)>>]
               ELSE st.nodes,
     roots |-> st.roots,
     parent |-> <<nodeid>>]

\* `if nodeid in self._nodes: parent_node = self._nodes[nodeid]; continue`
ReuseNode(st, parent, nodeid) ==
    [nodes |-> st.nodes, roots |-> st.roots, parent |-> <<nodeid>>]

\* Mutant of NewNode: every node is given a TestResult.
MutNewNodeResultForAll(link, result) ==
    [DescribeNode(link.name, result.display_name, result.docstring,
                  result.node_type, link.nodeid)
        EXCEPT !.result = <<TestResult(result.fixture_names)>>]

\* The DescribeNode of a link classified as result, with its TestResult if
\* it is a test.
NewNode(link, result) ==
    LET fresh == DescribeNode(link.name, result.display_name,
                              result.docstring, result.node_type,
                              link.nodeid)
    IN  IF result.node_type = TEST
        THEN [fresh EXCEPT !.result = <<TestResult(result.fixture_names)>>]
        ELSE fresh

\* Mutant of AttachNode: a node without a parent is appended to the roots
\* whatever its type.
MutAttachNodeRootsAny(st, parent, nodeid, node) ==
    LET registered == st.nodes @@ (nodeid :> node)
    IN  IF parent # <<>>
        THEN [nodes |-> [registered EXCEPT
                            ![parent[1]].children = Append(@, nodeid)],
              roots |-> st.roots,
              parent |-> <<nodeid>>]
        ELSE [nodes |-> registered,
              roots |-> Append(st.roots, nodeid),
              parent |-> <<nodeid>>]

\* Mutant of AttachNode: the node is put in front of the children of its
\* parent.
MutAttachNodePrepends(st, parent, nodeid, node) ==
    LET registered == st.nodes @@ (nodeid :> node)
    IN  IF parent # <<>>
        THEN [nodes |-> [registered EXCEPT
                            ![parent[1]].children = <<nodeid>> \o @],
              roots |-> st.roots,
              parent |-> <<nodeid>>]
        ELSE IF node.node_type = FILE
             THEN [nodes |-> registered,
                   roots |-> Append(st.roots, nodeid),
                   parent |-> <<nodeid>>]
             ELSE [nodes |-> registered,
                   roots |-> st.roots,
                   parent |-> <<nodeid>>]

\* The node is registered in _nodes, appended to the children of the parent
\* or, without a parent and if it is a FILE, to the roots, and becomes
\* parent_node.
AttachNode(st, parent, nodeid, node) ==
    LET registered == st.nodes @@ (nodeid :> node)
    IN  IF parent # <<>>
        THEN [nodes |-> [registered EXCEPT
                            ![parent[1]].children = Append(@, nodeid)],
              roots |-> st.roots,
              parent |-> <<nodeid>>]
        ELSE IF node.node_type = FILE
             THEN [nodes |-> registered,
                   roots |-> Append(st.roots, nodeid),
                   parent |-> <<nodeid>>]
             ELSE [nodes |-> registered,
                   roots |-> st.roots,
                   parent |-> <<nodeid>>]

\* Mutant of BuildLink: a skipped link resets parent_node to None.
MutBuildLinkSkipResetsParent(st, parent, link) ==
    LET nodeid == link.nodeid
    IN  IF nodeid \in DOMAIN st.nodes
        THEN ReuseNode(st, parent, nodeid)
        ELSE LET result == _classify_link(link)
             IN  IF result.skip
                 THEN [nodes |-> st.nodes, roots |-> st.roots, parent |-> <<>>]
                 ELSE AttachNode(st, parent, nodeid, NewNode(link, result))

\* The body of `for link in chain` for one link.
BuildLink(st, parent, link) ==
    LET nodeid == link.nodeid
    IN  IF nodeid \in DOMAIN st.nodes
        THEN ReuseNode(st, parent, nodeid)
        ELSE LET result == _classify_link(link)
             IN  IF result.skip
                 THEN [nodes |-> st.nodes, roots |-> st.roots, parent |-> parent]
                 ELSE AttachNode(st, parent, nodeid, NewNode(link, result))

\* `for link in chain`, from the state st with parent_node = parent.
RECURSIVE BuildChain(_, _, _)
BuildChain(st, parent, chain) ==
    IF chain = <<>>
    THEN [nodes |-> st.nodes, roots |-> st.roots]
    ELSE LET step == BuildLink(st, parent, Head(chain))
         IN  BuildChain([nodes |-> step.nodes, roots |-> step.roots],
                        step.parent, Tail(chain))

\* `for item in items`: an item is given by its listchain().
RECURSIVE build_from_items(_, _)
build_from_items(st, items) ==
    IF items = <<>>
    THEN st
    ELSE build_from_items(BuildChain(st, <<>>, listchain(Head(items))),
                          Tail(items))

(***************************************************************************)
(* model.py: find_by_nodeid.  The result is <<>> (None) or <<nodeid>>, the *)
(* node found.                                                             *)
(***************************************************************************)
\* DescribeNode.find_by_nodeid on the node n, and (FindInSeq) the loop
\* `for child in ...: found = child.find_by_nodeid(nodeid); if found: return`.
RECURSIVE NodeFind(_, _, _), FindInSeq(_, _, _)
\* Mutant of NodeFind: the children are searched before the node itself.
MutNodeFindChildrenFirst(ns, n, nodeid) ==
    LET found == FindInSeq(ns, ns[n].children, nodeid)
    IN  IF found # <<>>
        THEN found
        ELSE IF ns[n].nodeid = nodeid THEN <<n>> ELSE <<>>

NodeFind(ns, n, nodeid) ==
    IF ns[n].nodeid = nodeid
    THEN <<n>>
    ELSE FindInSeq(ns, ns[n].children, nodeid)

FindInSeq(ns, seq, nodeid) ==
    IF seq = <<>>
    THEN <<>>
    ELSE LET found == NodeFind(ns, Head(seq), nodeid)
         IN  IF found # <<>>
             THEN found
             ELSE FindInSeq(ns, Tail(seq), nodeid)

\* DescribeTree.find_by_nodeid
\* Mutant of find_by_nodeid: the nodeid is looked up in _nodes and not in the
\* hierarchy under the roots.
MutFindInNodes(ns, rs, nodeid) ==
    IF nodeid \in DOMAIN ns THEN <<nodeid>> ELSE <<>>

\* Mutant of find_by_nodeid: a nodeid that is not found under the roots is
\* looked up in _nodes.
MutFindFallsBackToNodes(ns, rs, nodeid) ==
    IF FindInSeq(ns, rs, nodeid) # <<>>
    THEN FindInSeq(ns, rs, nodeid)
    ELSE IF nodeid \in DOMAIN ns THEN <<nodeid>> ELSE <<>>

find_by_nodeid(ns, rs, nodeid) == FindInSeq(ns, rs, nodeid)

(***************************************************************************)
(* collector.py: _map_outcome and update_from_report.  A report is         *)
(*   nodeid, when, passed, failed, skipped, duration, sections             *)
(*   wasxfail          hasattr(report, "wasxfail")                         *)
(*   has_longreprtext  hasattr(report, "longreprtext")                     *)
(*   longreprtext      report.longreprtext ("" when the attribute is       *)
(*                     missing)                                            *)
(***************************************************************************)
\* Mutant of _map_outcome: the passed flag is tested before the marker.
MutMapOutcomePassedFirst(report) ==
    IF report.passed
    THEN PASSED
    ELSE IF report.wasxfail
         THEN XFAILED
         ELSE IF report.failed
              THEN FAILED
              ELSE IF report.skipped
                   THEN SKIPPED
                   ELSE PENDING

_map_outcome(report) ==
    IF report.wasxfail
    THEN IF report.passed THEN XPASSED ELSE XFAILED
    ELSE IF report.passed
         THEN PASSED
         ELSE IF report.failed
              THEN FAILED
              ELSE IF report.skipped
                   THEN SKIPPED
                   ELSE PENDING

\* hasattr(report, "longreprtext") and report.longreprtext
CarriesLongrepr(report) ==
    report.has_longreprtext /\ report.longreprtext # ""

\* Mutant of CallResult: the sections of the report are added to those the
\* result has.
MutCallResultAppendsSections(r, report) ==
    [r EXCEPT !.outcome  = _map_outcome(report),
              !.duration = report.duration,
              !.longrepr = IF CarriesLongrepr(report)
                           THEN report.longreprtext ELSE @,
              !.sections = @ \o report.sections]

\* Mutant of CallResult: the sections are replaced only by sections that are
\* not empty.
MutCallResultKeepsSections(r, report) ==
    [r EXCEPT !.outcome  = _map_outcome(report),
              !.duration = report.duration,
              !.longrepr = IF CarriesLongrepr(report)
                           THEN report.longreprtext ELSE @,
              !.sections = IF report.sections # <<>>
                           THEN report.sections ELSE @]

\* Mutant of CallResult: the fixture names are rebuilt empty, as in a new
\* TestResult.
MutCallResultNewResult(r, report) ==
    [r EXCEPT !.outcome  = _map_outcome(report),
              !.duration = report.duration,
              !.longrepr = IF CarriesLongrepr(report)
                           THEN report.longreprtext ELSE @,
              !.sections = report.sections,
              !.fixture_names = <<>>]

\* The `when == "call"` branch applied to the TestResult r.
CallResult(r, report) ==
    [r EXCEPT !.outcome  = _map_outcome(report),
              !.duration = report.duration,
              !.longrepr = IF CarriesLongrepr(report)
                           THEN report.longreprtext ELSE @,
              !.sections = report.sections]

\* Mutant of ErrorResult: the outcome is mapped from the report.
MutErrorResultMapped(r, report) ==
    [r EXCEPT !.outcome  = _map_outcome(report),
              !.duration = report.duration,
              !.longrepr = IF CarriesLongrepr(report)
                           THEN report.longreprtext ELSE @]

\* Mutant of ErrorResult: the longrepr is replaced whenever the report has the
\* attribute longreprtext, an empty one included.
MutErrorResultErasesLongrepr(r, report) ==
    [r EXCEPT !.outcome  = ERROR,
              !.duration = report.duration,
              !.longrepr = IF report.has_longreprtext
                           THEN report.longreprtext ELSE @]

\* Mutant of ErrorResult: a failure of the call phase is kept, so that the
\* outcome combines the phases.
MutErrorResultKeepsFailed(r, report) ==
    [r EXCEPT !.outcome  = IF @ = FAILED THEN FAILED ELSE ERROR,
              !.duration = report.duration,
              !.longrepr = IF CarriesLongrepr(report)
                           THEN report.longreprtext ELSE @]

\* The `when in ("setup", "teardown") and report.failed` branch.
ErrorResult(r, report) ==
    [r EXCEPT !.outcome  = ERROR,
              !.duration = report.duration,
              !.longrepr = IF CarriesLongrepr(report)
                           THEN report.longreprtext ELSE @]

\* Mutant of SetupSkipResult: the longrepr is taken from the report as in the
\* other branches.
MutSetupSkipResultTakesLongrepr(r, report) ==
    [r EXCEPT !.outcome  = _map_outcome(report),
              !.duration = report.duration,
              !.longrepr = IF CarriesLongrepr(report)
                           THEN report.longreprtext ELSE @]

\* The `when == "setup" and report.skipped` branch.
SetupSkipResult(r, report) ==
    [r EXCEPT !.outcome  = _map_outcome(report),
              !.duration = report.duration]

\* Mutant of ReportBranch: a skipped teardown is handled as a skipped setup.
MutReportBranchTeardownSkip(report) ==
    IF report.when = "call"
    THEN "call"
    ELSE IF report.when \in {"setup", "teardown"} /\ report.failed
         THEN "error"
         ELSE IF report.when \in {"setup", "teardown"} /\ report.skipped
              THEN "setup_skip"
              ELSE "ignored"

\* Mutant of ReportBranch: every setup report is handled as a call report.
MutReportBranchSetupAsCall(report) ==
    IF report.when \in {"call", "setup"}
    THEN "call"
    ELSE IF report.when = "teardown" /\ report.failed
         THEN "error"
         ELSE "ignored"

\* The branch of update_from_report that the report selects.
ReportBranch(report) ==
    IF report.when = "call"
    THEN "call"
    ELSE IF report.when \in {"setup", "teardown"} /\ report.failed
         THEN "error"
         ELSE IF report.when = "setup" /\ report.skipped
              THEN "setup_skip"
              ELSE "ignored"

\* Mutant of update_from_report: the branch is applied to every Result, not
\* to the Result of the node that find_by_nodeid returns.
MutUpdateEveryResult(ns, rs, report) ==
    LET branch == ReportBranch(report)
        updated(r) == IF branch = "call"
                      THEN CallResult(r, report)
                      ELSE IF branch = "error"
                           THEN ErrorResult(r, report)
                           ELSE SetupSkipResult(r, report)
    IN  IF branch = "ignored"
        THEN ns
        ELSE [n \in DOMAIN ns |->
                IF ns[n].result # <<>>
                THEN [ns[n] EXCEPT !.result = <<updated(ns[n].result[1])>>]
                ELSE ns[n]]

\* update_from_report: the nodes after the call (the roots never change).
update_from_report(ns, rs, report) ==
    LET branch == ReportBranch(report)
    IN  IF branch = "ignored"
        THEN ns
        ELSE LET node == find_by_nodeid(ns, rs, report.nodeid)
             IN  IF node # <<>> /\ ns[node[1]].result # <<>>
                 THEN LET r == ns[node[1]].result[1]
                          updated ==
                              IF branch = "call"
                              THEN CallResult(r, report)
                              ELSE IF branch = "error"
                                   THEN ErrorResult(r, report)
                                   ELSE SetupSkipResult(r, report)
                      IN  [ns EXCEPT ![node[1]].result = <<updated>>]
                 ELSE ns

(***************************************************************************)
(* model.py: DescribeNode.overall_outcome.                                 *)
(***************************************************************************)
\* Mutant of CombineOutcomes: XPASSED is looked for before FAILED and ERROR.
MutCombineOutcomesXpassedFirst(outcomes) ==
    IF outcomes = <<>>
    THEN PENDING
    ELSE IF \E i \in 1..Len(outcomes) : outcomes[i] = XPASSED
         THEN XPASSED
         ELSE IF \E i \in 1..Len(outcomes) : outcomes[i] \in {FAILED, ERROR}
              THEN FAILED
              ELSE IF \A i \in 1..Len(outcomes) : outcomes[i] = SKIPPED
                   THEN SKIPPED
                   ELSE IF \A i \in 1..Len(outcomes) : outcomes[i] = PENDING
                        THEN PENDING
                        ELSE PASSED

\* The precedence over outcomes = [child.overall_outcome for child in children].
CombineOutcomes(outcomes) ==
    IF outcomes = <<>>
    THEN PENDING
    ELSE IF \E i \in 1..Len(outcomes) : outcomes[i] \in {FAILED, ERROR}
         THEN FAILED
         ELSE IF \E i \in 1..Len(outcomes) : outcomes[i] = XPASSED
              THEN XPASSED
              ELSE IF \A i \in 1..Len(outcomes) : outcomes[i] = SKIPPED
                   THEN SKIPPED
                   ELSE IF \A i \in 1..Len(outcomes) : outcomes[i] = PENDING
                        THEN PENDING
                        ELSE PASSED

RECURSIVE overall_outcome(_, _)
overall_outcome(ns, n) ==
    IF ns[n].node_type = TEST
    THEN IF ns[n].result # <<>> THEN ns[n].result[1].outcome ELSE PENDING
    ELSE CombineOutcomes([i \in 1..Len(ns[n].children) |->
                             overall_outcome(ns, ns[n].children[i])])

(***************************************************************************)
(* model.py: the counts of DescribeNode and the totals of DescribeTree.    *)
(***************************************************************************)
\* sum(...) over a list of numbers.
RECURSIVE SumSeq(_)
SumSeq(seq) == IF seq = <<>> THEN 0 ELSE Head(seq) + SumSeq(Tail(seq))

RECURSIVE test_count(_, _)
test_count(ns, n) ==
    IF ns[n].node_type = TEST
    THEN 1
    ELSE SumSeq([i \in 1..Len(ns[n].children) |->
                    test_count(ns, ns[n].children[i])])

\* Mutant of passed_count: an XPASSED test counts as passed.
RECURSIVE MutPassedCountXpassed(_, _)
MutPassedCountXpassed(ns, n) ==
    IF ns[n].node_type = TEST
    THEN IF ns[n].result # <<>>
              /\ ns[n].result[1].outcome \in {PASSED, XPASSED}
         THEN 1 ELSE 0
    ELSE SumSeq([i \in 1..Len(ns[n].children) |->
                    MutPassedCountXpassed(ns, ns[n].children[i])])

RECURSIVE passed_count(_, _)
passed_count(ns, n) ==
    IF ns[n].node_type = TEST
    THEN IF ns[n].result # <<>> /\ ns[n].result[1].outcome = PASSED
         THEN 1 ELSE 0
    ELSE SumSeq([i \in 1..Len(ns[n].children) |->
                    passed_count(ns, ns[n].children[i])])

\* Mutant of failed_count: every test that has a result and has not passed
\* counts as failed.
RECURSIVE MutFailedCountNotPassed(_, _)
MutFailedCountNotPassed(ns, n) ==
    IF ns[n].node_type = TEST
    THEN IF ns[n].result # <<>>
              /\ ns[n].result[1].outcome \notin {PASSED, PENDING}
         THEN 1 ELSE 0
    ELSE SumSeq([i \in 1..Len(ns[n].children) |->
                    MutFailedCountNotPassed(ns, ns[n].children[i])])

\* Mutant of failed_count: a test with outcome ERROR does not count.
RECURSIVE MutFailedCountFailedOnly(_, _)
MutFailedCountFailedOnly(ns, n) ==
    IF ns[n].node_type = TEST
    THEN IF ns[n].result # <<>> /\ ns[n].result[1].outcome = FAILED
         THEN 1 ELSE 0
    ELSE SumSeq([i \in 1..Len(ns[n].children) |->
                    MutFailedCountFailedOnly(ns, ns[n].children[i])])

RECURSIVE failed_count(_, _)
failed_count(ns, n) ==
    IF ns[n].node_type = TEST
    THEN IF ns[n].result # <<>>
              /\ ns[n].result[1].outcome \in {FAILED, ERROR}
         THEN 1 ELSE 0
    ELSE SumSeq([i \in 1..Len(ns[n].children) |->
                    failed_count(ns, ns[n].children[i])])

RECURSIVE skipped_count(_, _)
skipped_count(ns, n) ==
    IF ns[n].node_type = TEST
    THEN IF ns[n].result # <<>> /\ ns[n].result[1].outcome = SKIPPED
         THEN 1 ELSE 0
    ELSE SumSeq([i \in 1..Len(ns[n].children) |->
                    skipped_count(ns, ns[n].children[i])])

RECURSIVE aggregate_duration(_, _)
aggregate_duration(ns, n) ==
    IF ns[n].node_type = TEST
    THEN IF ns[n].result # <<>> THEN ns[n].result[1].duration ELSE 0
    ELSE SumSeq([i \in 1..Len(ns[n].children) |->
                    aggregate_duration(ns, ns[n].children[i])])

\* Mutant of total_tests: only the first root is counted.
MutTotalTestsFirstRoot(ns, rs) ==
    IF rs = <<>> THEN 0 ELSE test_count(ns, rs[1])

total_tests(ns, rs) ==
    SumSeq([i \in 1..Len(rs) |-> test_count(ns, rs[i])])

total_passed(ns, rs) ==
    SumSeq([i \in 1..Len(rs) |-> passed_count(ns, rs[i])])

total_failed(ns, rs) ==
    SumSeq([i \in 1..Len(rs) |-> failed_count(ns, rs[i])])

total_skipped(ns, rs) ==
    SumSeq([i \in 1..Len(rs) |-> skipped_count(ns, rs[i])])

total_duration(ns, rs) ==
    SumSeq([i \in 1..Len(rs) |-> aggregate_duration(ns, rs[i])])

(***************************************************************************)
(* The inputs: the pytest nodes of a session, the chains and the reports.  *)
(***************************************************************************)
\* The links of which the chains of the collection epoch are made.
ChainLinks == {"S", "F", "G", "D", "T1"}

RECURSIVE SeqsUpTo(_, _)
SeqsUpTo(S, n) ==
    IF n = 0
    THEN {<<>>}
    ELSE LET shorter == SeqsUpTo(S, n - 1)
         IN  shorter \cup {Append(c, x) : c \in shorter, x \in S}

\* Every listchain() of at most MaxChainLen links, in any order.
\* A listchain() is a path of distinct pytest nodes.
Chains ==
    {c \in SeqsUpTo(ChainLinks, MaxChainLen) :
        /\ c # <<>>
        /\ \A i, j \in 1..Len(c) : i # j => c[i] # c[j]}

\* A session whose only reachable test is it_x; it_y is collected without
\* any ancestor.
SessionItems ==
    { << <<"S", "F", "D", "T1">> >>,
      << <<"S", "T2">> >> }

\* A session with a describe block, a test in it, a test beside it and a
\* file of which no test was collected.
SuiteItems ==
    << <<"S", "F", "D", "T1">>, <<"S", "F", "T2">>, <<"S", "G">> >>

\* The nodeids that reports carry: those of every pytest node that a build
\* makes a node of.
ReportIds ==
    {PytestNodes[l].nodeid :
        l \in {k \in Links : ~_classify_link(PytestNodes[k]).skip}}

\* report.when: the three phases of pytest and a tag that is none of them.
Phases == {"setup", "call", "teardown", "collect"}

Section == <<"Captured stdout call", "out">>

\* (has_longreprtext, longreprtext): no attribute, an empty text, a text.
Longreprs == {<<FALSE, "">>, <<TRUE, "">>, <<TRUE, "boom">>}

Reports ==
    { [nodeid |-> n, when |-> w, passed |-> p, failed |-> f, skipped |-> k,
       wasxfail |-> x, duration |-> d, has_longreprtext |-> lr[1],
       longreprtext |-> lr[2], sections |-> sec] :
        n \in ReportIds, w \in Phases, p \in BOOLEAN, f \in BOOLEAN,
        k \in BOOLEAN, x \in BOOLEAN, d \in 1..MaxDuration,
        lr \in Longreprs, sec \in {<<>>, <<Section>>} }

(***************************************************************************)
(* The collector as a state machine.                                       *)
(***************************************************************************)
\* The nodeids that a call of build_from_items sees for the first time on a
\* link that is not skipped, in the order in which it sees them.
RECURSIVE FirstSeen(_, _)
FirstSeen(known, links) ==
    IF links = <<>>
    THEN <<>>
    ELSE LET l == Head(links)
         IN  IF l.nodeid \in known \/ _classify_link(l).skip
             THEN FirstSeen(known, Tail(links))
             ELSE <<l.nodeid>> \o FirstSeen(known \cup {l.nodeid}, Tail(links))

RECURSIVE Flatten(_)
Flatten(items) ==
    IF items = <<>>
    THEN <<>>
    ELSE listchain(Head(items)) \o Flatten(Tail(items))

(***************************************************************************)
(* naming.py: format_duration.  The text is given by the format that is    *)
(* chosen and the numbers that are put into it.                            *)
(***************************************************************************)
format_duration(ms) ==
    IF ms < 1000
    THEN [format |-> "{:.0f}ms", minutes |-> 0, ms |-> ms]
    ELSE IF ms < 60000
         THEN [format |-> "{:.2f}s", minutes |-> 0, ms |-> ms]
         ELSE [format |-> "{}m {:.1f}s", minutes |-> ms \div 60000,
               ms |-> ms % 60000]

(***************************************************************************)
(* terminal_reporter.py: BeautifulTerminalReporter.  A line of the         *)
(* terminal is a record of what tw.line() was given.                       *)
(***************************************************************************)
OUTCOME_SYMBOLS ==
    (PASSED :> <<"u2713", "green">>) @@ (FAILED :> <<"u2717", "red">>)
    @@ (SKIPPED :> <<"u25cb", "yellow">>) @@ (XFAILED :> <<"u2298", "yellow">>)
    @@ (XPASSED :> <<"u2717!", "red">>) @@ (ERROR :> <<"u2620", "red">>)
    @@ (PENDING :> <<"?", "white">>)

\* nodeid.split("::") for the nodeids of the session and for one that no
\* pytest node has.
NodeidParts ==
    ("" :> <<"">>) @@ ("f.py" :> <<"f.py">>) @@ ("g.py" :> <<"g.py">>)
    @@ ("f.py::weird" :> <<"f.py", "weird">>)
    @@ ("f.py::describe_a_b" :> <<"f.py", "describe_a_b">>)
    @@ ("f.py::describe_a_b::it_x" :> <<"f.py", "describe_a_b", "it_x">>)
    @@ ("f.py::describe_a_b::it_y" :> <<"f.py", "describe_a_b", "it_y">>)
    @@ ("g.py::it_z" :> <<"g.py", "it_z">>)
    @@ ("n.py" :> <<"n.py">>)
    @@ ("n.py::describe_Outer" :> <<"n.py", "describe_Outer">>)
    @@ ("n.py::describe_Outer::it_top"
           :> <<"n.py", "describe_Outer", "it_top">>)
    @@ ("n.py::describe_Outer::describe_inner"
           :> <<"n.py", "describe_Outer", "describe_inner">>)
    @@ ("n.py::describe_Outer::describe_inner::it_works"
           :> <<"n.py", "describe_Outer", "describe_inner", "it_works">>)

\* "::".join(parts)
JoinParts(parts) ==
    CHOOSE nodeid \in DOMAIN NodeidParts : NodeidParts[nodeid] = parts

\* str.splitlines() of a text of at most one line.
Splitlines(text) == IF text = "" THEN <<>> ELSE <<text>>

\* A line without any content.
BlankLine ==
    [kind |-> "", indent |-> 0, symbol |-> "", display_name |-> <<>>,
     docstring |-> "", duration |-> <<>>, slow |-> FALSE,
     fixtures |-> <<>>, text |-> "", markup |-> ""]

\* Mutant of Rendered: the result of a failed teardown is rendered too.
MutRenderedTeardownFailure(report) ==
    \/ report.when = "call"
    \/ report.when = "setup" /\ (report.failed \/ report.skipped)
    \/ report.when = "teardown" /\ report.failed

\* Mutant of Rendered: the result is rendered on every setup report.
MutRenderedEverySetup(report) ==
    \/ report.when = "call"
    \/ report.when = "setup"

\* The test of pytest_runtest_logreport for a report whose result is
\* rendered: `not (when != "call" and not (when == "setup" and (failed or
\* skipped)))`.
Rendered(report) ==
    \/ report.when = "call"
    \/ report.when = "setup" /\ (report.failed \/ report.skipped)

\* Mutant of _print_headers_for: the blocks that are new are pushed on
\* _current_stack, which is never replaced.
MutPrintHeadersPushes(ns, rs, rep, nodeid) ==
    LET parts == NodeidParts[nodeid]
        candidates == [i \in 1..(Len(parts) - 1) |->
                          JoinParts(SubSeq(parts, 1, i + 1))]
        IsBlock(block_id) ==
            LET block_node == find_by_nodeid(ns, rs, block_id)
            IN  block_node # <<>> /\ ns[block_node[1]].node_type # TEST
        block_ids == SelectSeq(candidates, IsBlock)
        IsNew(i) ==
            /\ \A k \in 1..Len(rep.current_stack) :
                  rep.current_stack[k] # block_ids[i]
            /\ find_by_nodeid(ns, rs, block_ids[i]) # <<>>
        fresh == SelectSeq([i \in 1..Len(block_ids) |-> i], IsNew)
        Header(i) ==
            LET block_node == ns[find_by_nodeid(ns, rs, block_ids[i])[1]]
            IN  [BlankLine EXCEPT
                    !.kind = "header",
                    !.indent = i - 1,
                    !.display_name = block_node.display_name,
                    !.docstring = IF rep.expand_all
                                  THEN block_node.docstring ELSE ""]
    IN  [lines |-> [k \in 1..Len(fresh) |-> Header(fresh[k])],
         current_stack |-> rep.current_stack \o
                              [k \in 1..Len(fresh) |-> block_ids[fresh[k]]]]

\* _print_headers_for: the block ids of the nodeid, the header lines of
\* those that are not on _current_stack, and the new _current_stack.
_print_headers_for(ns, rs, rep, nodeid) ==
    LET parts == NodeidParts[nodeid]
        candidates == [i \in 1..(Len(parts) - 1) |->
                          JoinParts(SubSeq(parts, 1, i + 1))]
        IsBlock(block_id) ==
            LET block_node == find_by_nodeid(ns, rs, block_id)
            IN  block_node # <<>> /\ ns[block_node[1]].node_type # TEST
        block_ids == SelectSeq(candidates, IsBlock)
        IsNew(i) ==
            /\ \A k \in 1..Len(rep.current_stack) :
                  rep.current_stack[k] # block_ids[i]
            /\ find_by_nodeid(ns, rs, block_ids[i]) # <<>>
        fresh == SelectSeq([i \in 1..Len(block_ids) |-> i], IsNew)
        Header(i) ==
            LET block_node == ns[find_by_nodeid(ns, rs, block_ids[i])[1]]
            IN  [BlankLine EXCEPT
                    !.kind = "header",
                    !.indent = i - 1,
                    !.display_name = block_node.display_name,
                    !.docstring = IF rep.expand_all
                                  THEN block_node.docstring ELSE ""]
    IN  [lines |-> [k \in 1..Len(fresh) |-> Header(fresh[k])],
         current_stack |-> block_ids]

\* _print_test_line: the lines written for the node n when _current_stack
\* is stack.
_print_test_line(ns, threshold, rep, stack, n) ==
    IF ns[n].result = <<>>
    THEN <<>>
    ELSE LET result == ns[n].result[1]
             line ==
                 [BlankLine EXCEPT
                     !.kind = "test",
                     !.indent = Len(stack),
                     !.symbol = OUTCOME_SYMBOLS[result.outcome][1],
                     !.display_name = ns[n].display_name,
                     !.docstring = IF rep.expand_all
                                   THEN ns[n].docstring ELSE "",
                     !.duration = <<format_duration(result.duration)>>,
                     !.slow = result.duration > threshold,
                     !.fixtures = IF rep.expand_all /\ ~rep.no_fixtures
                                  THEN result.fixture_names ELSE <<>>,
                     !.markup = OUTCOME_SYMBOLS[result.outcome][2]]
             details == IF result.outcome \in {FAILED, ERROR}
                        THEN Splitlines(result.longrepr)
                        ELSE <<>>
         IN  <<line>> \o
             [k \in 1..Len(details) |->
                 [BlankLine EXCEPT !.kind = "longrepr",
                                   !.indent = Len(stack),
                                   !.text = details[k],
                                   !.markup = "red"]]

\* pytest_runtest_logreport: the nodes and the _current_stack after the call
\* and the lines it writes.
pytest_runtest_logreport(ns, rs, threshold, rep, report) ==
    LET updated == update_from_report(ns, rs, report)
        silent  == [nodes |-> updated, current_stack |-> rep.current_stack,
                    lines |-> <<>>]
    IN  IF ~Rendered(report)
        THEN silent
        ELSE LET node == find_by_nodeid(updated, rs, report.nodeid)
             IN  IF node = <<>>
                 THEN silent
                 ELSE LET headers == _print_headers_for(updated, rs, rep,
                                                        report.nodeid)
                      IN  [nodes |-> updated,
                           current_stack |-> headers.current_stack,
                           lines |-> headers.lines \o
                               _print_test_line(updated, threshold, rep,
                                                headers.current_stack,
                                                node[1])]

\* BeautifulTerminalReporter(config)
NewReporter(expand_all, no_fixtures) ==
    [expand_all |-> expand_all, no_fixtures |-> no_fixtures,
     current_stack |-> <<>>]

(***************************************************************************)
(* html_reporter.py: HtmlReporter.  The report is a record of the values   *)
(* put into HTML_TEMPLATE; tree_html is a sequence of elements, <details>  *)
(* for a block and <div class="test-item"> for a test.                     *)
(***************************************************************************)
HTML_OUTCOME_SYMBOLS ==
    (PASSED :> <<"u2713", "passed">>) @@ (FAILED :> <<"u2717", "failed">>)
    @@ (SKIPPED :> <<"u25cb", "skipped">>)
    @@ (XFAILED :> <<"u2298", "xfailed">>)
    @@ (XPASSED :> <<"u2717!", "xpassed">>) @@ (ERROR :> <<"u2620", "error">>)
    @@ (PENDING :> <<"?", "pending">>)

\* html.escape of one character.
EscapeChar(c) ==
    CASE c = "&"  -> <<"&", "a", "m", "p", ";">>
      [] c = "<"  -> <<"&", "l", "t", ";">>
      [] c = ">"  -> <<"&", "g", "t", ";">>
      [] c = "\"" -> <<"&", "q", "u", "o", "t", ";">>
      [] c = "'"  -> <<"&", "#", "x", "2", "7", ";">>
      [] OTHER    -> <<c>>

\* html.escape of a str that is a sequence of characters.
RECURSIVE html_escape(_)
html_escape(s) ==
    IF s = <<>> THEN <<>> ELSE EscapeChar(Head(s)) \o html_escape(Tail(s))

\* html.escape of a str that the model does not take apart.
EscapedText(text) == <<"html.escape", text>>

\* An element without any content.
BlankElement ==
    [tag |-> "", class |-> "", open |-> FALSE, symbol |-> "",
     display_name |-> <<>>, docstring |-> <<>>, stats |-> <<>>,
     duration |-> <<>>, slow |-> FALSE, fixtures |-> <<>>,
     failure |-> <<>>, children |-> <<>>]

\* _render_test
_render_test(ns, n, threshold) ==
    IF ns[n].result = <<>>
    THEN <<>>
    ELSE LET result == ns[n].result[1]
         IN  << [BlankElement EXCEPT
                    !.tag = "div",
                    !.class = HTML_OUTCOME_SYMBOLS[result.outcome][2],
                    !.symbol = HTML_OUTCOME_SYMBOLS[result.outcome][1],
                    !.display_name = html_escape(ns[n].display_name),
                    !.docstring = IF ns[n].docstring # ""
                                  THEN EscapedText(ns[n].docstring)
                                  ELSE <<>>,
                    !.duration = <<format_duration(result.duration)>>,
                    !.slow = result.duration > threshold,
                    !.fixtures = IF result.fixture_names # <<>>
                                 THEN EscapedText(result.fixture_names)
                                 ELSE <<>>,
                    !.failure = IF result.outcome \in {FAILED, ERROR}
                                     /\ result.longrepr # ""
                                THEN EscapedText(result.longrepr)
                                ELSE <<>>] >>

\* Mutant of HasFailure: only the tests that are children of the block
\* count.
MutHasFailureOwnTests(ns, n) ==
    \E i \in 1..Len(ns[n].children) :
        LET child == ns[ns[n].children[i]]
        IN  /\ child.node_type = TEST
            /\ child.result # <<>>
            /\ child.result[1].outcome \in {FAILED, ERROR}

\* has_failure of _render_node
HasFailure(ns, n) == overall_outcome(ns, n) \in {FAILED, ERROR}

\* _render_node, and (RenderNodes) the elements of a list of nodes, one
\* after the other.
RECURSIVE _render_node(_, _, _, _), RenderNodes(_, _, _, _)
_render_node(ns, n, is_root, threshold) ==
    IF ns[n].node_type = TEST
    THEN _render_test(ns, n, threshold)
    ELSE << [BlankElement EXCEPT
                !.tag = "details",
                !.class = IF is_root THEN "root" ELSE "",
                !.open = HasFailure(ns, n),
                !.display_name = html_escape(ns[n].display_name),
                !.docstring = IF ns[n].docstring # ""
                              THEN EscapedText(ns[n].docstring)
                              ELSE <<>>,
                !.stats = <<passed_count(ns, n), test_count(ns, n)>>,
                !.duration = <<format_duration(aggregate_duration(ns, n))>>,
                !.children = RenderNodes(ns, ns[n].children, FALSE,
                                         threshold)] >>

RenderNodes(ns, seq, is_root, threshold) ==
    IF seq = <<>>
    THEN <<>>
    ELSE _render_node(ns, Head(seq), is_root, threshold)
         \o RenderNodes(ns, Tail(seq), is_root, threshold)

\* _render_tree: the children of every root, as root elements.
RECURSIVE _render_tree(_, _, _)
_render_tree(ns, rs, threshold) ==
    IF rs = <<>>
    THEN <<>>
    ELSE RenderNodes(ns, ns[Head(rs)].children, TRUE, threshold)
         \o _render_tree(ns, Tail(rs), threshold)

\* generate_report: the content of the file it writes.
generate_report(ns, rs, threshold) ==
    [total |-> total_tests(ns, rs),
     passed |-> total_passed(ns, rs),
     failed |-> total_failed(ns, rs),
     skipped |-> total_skipped(ns, rs),
     duration |-> format_duration(total_duration(ns, rs)),
     tree_html |-> _render_tree(ns, rs, threshold)]

\* HtmlReporter(slow_threshold)
HtmlReporter(threshold) == [slow_threshold |-> threshold]

(***************************************************************************)
(* plugin.py: the hooks of the plugin.  A config is a record of            *)
(*   describe_beautifully, describe_html, describe_expand_all,             *)
(*   describe_no_fixtures   the options (describe_html is <<>> for None)   *)
(*   plugins                the names registered with config.pluginmanager *)
(*   html_path, html_reporter                                              *)
(*                          config._describe_html_path and                 *)
(*                          config._describe_html_reporter, <<>> while the *)
(*                          attribute is not set                           *)
(*   configured, finished   pytest has called pytest_configure,            *)
(*                          pytest_sessionfinish                           *)
(***************************************************************************)
ReporterName == "describe-beautifully-reporter"

\* A config on which nothing is set.
DefaultConfig ==
    [describe_beautifully |-> FALSE, describe_html |-> <<>>,
     describe_expand_all |-> FALSE, describe_no_fixtures |-> FALSE,
     plugins |-> {}, html_path |-> <<>>, html_reporter |-> <<>>,
     configured |-> FALSE, finished |-> FALSE]

\* The truth value of an optional str.
Truthy(opt) == opt # <<>> /\ opt[1] # ""

_should_activate(cfg) == cfg.describe_beautifully

\* pytest_configure: the config after the call.
pytest_configure(cfg) ==
    IF ~_should_activate(cfg)
    THEN [cfg EXCEPT !.configured = TRUE]
    ELSE LET registered == [cfg EXCEPT !.configured = TRUE,
                                       !.plugins = @ \cup {ReporterName}]
         IN  IF Truthy(cfg.describe_html)
             THEN [registered EXCEPT
                      !.html_path = cfg.describe_html,
                      !.html_reporter =
                          <<HtmlReporter(DefaultSlowThreshold)>>]
             ELSE registered

\* pytest_unconfigure: the config after the call.
pytest_unconfigure(cfg) == [cfg EXCEPT !.plugins = @ \ {ReporterName}]

\* Mutant of ShouldGenerate: the terminal reporter is not asked for.
MutShouldGenerateUnregistered(cfg) ==
    Truthy(cfg.html_path) /\ cfg.html_reporter # <<>>

\* The conditions of pytest_sessionfinish under which generate_report is
\* called.
ShouldGenerate(cfg) ==
    /\ Truthy(cfg.html_path)
    /\ cfg.html_reporter # <<>>
    /\ ReporterName \in cfg.plugins

\* The state outside the collector when only a collector has been made.
InitEnv ==
    /\ reporter = NewReporter(FALSE, FALSE)
    /\ tw = <<>>
    /\ config = DefaultConfig
    /\ files = <<>>
    /\ runner = <<>>

Idle == [op |-> "idle", phase |-> "idle"]

\* TreeCollector(): an empty tree and an empty _nodes.
Init ==
    /\ nodes = <<>>
    /\ roots = <<>>
    /\ slow_threshold = DefaultSlowThreshold
    /\ seen = <<>>
    /\ InitEnv
    /\ call = Idle

\* pytest calls collector.build_from_items(items); no call is in progress.
CallBuild(items) ==
    /\ call' = [op |-> "build", phase |-> "entry", items |-> items]
    /\ UNCHANGED <<nodes, roots, slow_threshold, seen>>
    /\ UNCHANGED env

\* build_from_items runs.
Build ==
    /\ call.op = "build"
    /\ call.phase = "entry"
    /\ LET after == build_from_items([nodes |-> nodes, roots |-> roots],
                                     call.items)
       IN  /\ nodes' = after.nodes
           /\ roots' = after.roots
    /\ seen' = seen \o FirstSeen({seen[i] : i \in 1..Len(seen)},
                                 Flatten(call.items))
    /\ call' = [call EXCEPT !.phase = "return"]
    /\ UNCHANGED slow_threshold
    /\ UNCHANGED env

\* pytest calls collector.update_from_report(report); no call is in
\* progress.
CallUpdate(report) ==
    /\ call' = [op |-> "update", phase |-> "entry", report |-> report]
    /\ UNCHANGED <<nodes, roots, slow_threshold, seen>>
    /\ UNCHANGED env

\* update_from_report runs.
Update ==
    /\ call.op = "update"
    /\ call.phase = "entry"
    /\ nodes' = update_from_report(nodes, roots, call.report)
    /\ call' = [call EXCEPT !.phase = "return"]
    /\ UNCHANGED <<roots, slow_threshold, seen>>
    /\ UNCHANGED env

\* The call returns to pytest.
Return ==
    /\ call.phase = "return"
    /\ call' = Idle
    /\ UNCHANGED <<nodes, roots, slow_threshold, seen>>
    /\ UNCHANGED env

\* _map_outcome(report) runs on its own.
MapOutcome ==
    /\ call.op = "map_outcome"
    /\ call.phase = "entry"
    /\ call' = [op |-> "map_outcome", phase |-> "return",
                report |-> call.report,
                result |-> _map_outcome(call.report)]
    /\ UNCHANGED <<nodes, roots, slow_threshold, seen>>
    /\ UNCHANGED env

\* Code outside the collector sets the result of a test node of the tree to
\* None (node.result = None), between two calls.
ClearResult ==
    /\ call = Idle
    /\ \E nodeid \in DOMAIN nodes :
          /\ find_by_nodeid(nodes, roots, nodeid) # <<>>
          /\ nodes[nodeid].result # <<>>
          /\ nodes' = [nodes EXCEPT ![nodeid].result = <<>>]
    /\ UNCHANGED <<roots, slow_threshold, seen, call>>
    /\ UNCHANGED env

\* A session: the collection of SessionItems and reports of every kind, in
\* any order.
CallBuildSession ==
    /\ call = Idle
    /\ \E items \in SessionItems : CallBuild(items)

CallUpdateReport ==
    /\ call = Idle
    /\ \E report \in Reports : CallUpdate(report)

Next ==
    \/ CallBuildSession
    \/ Build
    \/ CallUpdateReport
    \/ Update
    \/ Return

Spec == Init /\ [][Next]_vars

\* The same session, in which results can also be cleared from outside.
NextCleared ==
    \/ CallBuildSession
    \/ Build
    \/ CallUpdateReport
    \/ Update
    \/ Return
    \/ ClearResult

SpecCleared == Init /\ [][NextCleared]_vars

\* The collection epoch alone: every chain, one per call, and the session of
\* SuiteItems.
CallBuildChain ==
    /\ call = Idle
    /\ \E chain \in Chains : CallBuild(<<chain>>)

CallBuildSuite ==
    /\ call = Idle
    /\ CallBuild(SuiteItems)

NextBuild ==
    \/ CallBuildChain
    \/ CallBuildSuite
    \/ Build
    \/ Return

SpecBuild == Init /\ [][NextBuild]_vars

\* A session of two tests whose reports carry neither a long description nor
\* sections, and in which results can be cleared from outside.
OutcomeReports ==
    {r \in Reports : ~r.has_longreprtext /\ r.sections = <<>>}

CallBuildAgg ==
    /\ call = Idle
    /\ CallBuild(SuiteItems)

CallUpdateOutcome ==
    /\ call = Idle
    /\ \E report \in OutcomeReports : CallUpdate(report)

NextAgg ==
    \/ CallBuildAgg
    \/ Build
    \/ CallUpdateOutcome
    \/ Update
    \/ Return
    \/ ClearResult

SpecAgg == Init /\ [][NextAgg]_vars

\* A session of three tests in two files, with the call reports that carry
\* neither a marker nor a long description nor sections.
TotalsItems ==
    << <<"S", "F", "D", "T1">>, <<"S", "F", "T2">>, <<"S", "G", "T3">> >>

TotalsReports ==
    {r \in OutcomeReports :
        /\ r.when = "call"
        /\ ~r.wasxfail
        /\ r.nodeid \in {PytestNodes[l].nodeid : l \in {"T1", "T2", "T3"}}}

CallBuildTotals ==
    /\ call = Idle
    /\ CallBuild(TotalsItems)

CallUpdateTotals ==
    /\ call = Idle
    /\ \E report \in TotalsReports : CallUpdate(report)

NextTotals ==
    \/ CallBuildTotals
    \/ Build
    \/ CallUpdateTotals
    \/ Update
    \/ Return

SpecTotals == Init /\ [][NextTotals]_vars

\* Collection and reporting interleaved: every chain, one per call, and the
\* failure reports of the call and the setup of it_x.
LifeReports ==
    {r \in Reports :
        /\ r.nodeid = PytestNodes["T1"].nodeid
        /\ r.when \in {"call", "setup"}
        /\ r.failed /\ ~r.passed /\ ~r.skipped /\ ~r.wasxfail
        /\ r.duration = 1
        /\ r.longreprtext = "boom"
        /\ r.sections = <<Section>>}

CallUpdateLife ==
    /\ call = Idle
    /\ \E report \in LifeReports : CallUpdate(report)

NextLife ==
    \/ CallBuildChain
    \/ Build
    \/ CallUpdateLife
    \/ Update
    \/ Return

SpecLife == Init /\ [][NextLife]_vars

\* The chains in which only the last link is a test function.
LeafChains ==
    {c \in Chains :
        \A i \in 1..Len(c) :
            _classify_link(PytestNodes[c[i]]).node_type = TEST => i = Len(c)}

CallBuildLeaf ==
    /\ call = Idle
    /\ \E chain \in LeafChains : CallBuild(<<chain>>)

NextLeaf ==
    \/ CallBuildLeaf
    \/ Build
    \/ CallUpdateLife
    \/ Update
    \/ Return

SpecLeaf == Init /\ [][NextLeaf]_vars

\* Builds of chains that hold, in any order, the Session, a Module, a
\* collector without path and a test.
ShapeLinks == {"S", "F", "W", "T1"}

ShapeChains ==
    {c \in SeqsUpTo(ShapeLinks, MaxChainLen) :
        /\ c # <<>>
        /\ \A i, j \in 1..Len(c) : i # j => c[i] # c[j]}

CallBuildShapes ==
    /\ call = Idle
    /\ \E chain \in ShapeChains : CallBuild(<<chain>>)

NextShapes ==
    \/ CallBuildShapes
    \/ Build
    \/ Return

SpecShapes == Init /\ [][NextShapes]_vars

\* _classify_link on its own, on links that expose every combination of the
\* attributes it probes.
LinkAttrs ==
    {"fspath", "collect", "path", "reportinfo", "function", "fixturenames",
     "funcobj", "obj"}

\* Names of fixtures, two of them in BUILTIN_FIXTURES.
FixtureNames == {"request", "db", "tmp_path", "api"}

ClassifyLinks ==
    { [nodeid |-> "f.py::it_x", name |-> <<"i", "t", "_", "x">>,
       attrs |-> a, describe_block |-> b,
       type_name |-> IF b THEN "DescribeBlock" ELSE "Node",
       funcobj_doc |-> "Funcobj.", obj_doc |-> "Obj.",
       function_doc |-> "Function.", fixturenames |-> fx] :
        a \in SUBSET LinkAttrs, b \in BOOLEAN,
        fx \in SeqsUpTo(FixtureNames, MaxFixtures) }

ClassifyLink ==
    /\ call.op = "classify"
    /\ call.phase = "entry"
    /\ call' = [op |-> "classify", phase |-> "return", link |-> call.link,
                result |-> _classify_link(call.link)]
    /\ UNCHANGED <<nodes, roots, slow_threshold, seen>>
    /\ UNCHANGED env

InitClassify ==
    /\ nodes = <<>>
    /\ roots = <<>>
    /\ slow_threshold = DefaultSlowThreshold
    /\ seen = <<>>
    /\ InitEnv
    /\ call \in {[op |-> "classify", phase |-> "entry", link |-> l] :
                    l \in ClassifyLinks}

NextClassify == ClassifyLink

SpecClassify == InitClassify /\ [][NextClassify]_vars

\* Builds of the chain [Module f.py, Function it_x] in which the Function has
\* any fixturenames, or no fixturenames attribute at all, and the reports of
\* the three phases of it_x.
FixtureLinks ==
    { [FunctionLink(PytestNodes["T1"].nodeid, PytestNodes["T1"].name, "", fx)
          EXCEPT !.attrs = IF has THEN @ ELSE @ \ {"fixturenames"}] :
        fx \in SeqsUpTo(FixtureNames, MaxFixtures), has \in BOOLEAN }

CallBuildFixtures ==
    /\ call = Idle
    /\ \E link \in FixtureLinks :
          call' = [op |-> "build_chain", phase |-> "entry",
                   chain |-> <<PytestNodes["F"], link>>]
    /\ UNCHANGED <<nodes, roots, slow_threshold, seen>>
    /\ UNCHANGED env

\* build_from_items runs on one item, given by the links of its listchain().
BuildLinks ==
    /\ call.op = "build_chain"
    /\ call.phase = "entry"
    /\ LET after == BuildChain([nodes |-> nodes, roots |-> roots], <<>>,
                               call.chain)
       IN  /\ nodes' = after.nodes
           /\ roots' = after.roots
    /\ seen' = seen \o FirstSeen({seen[i] : i \in 1..Len(seen)}, call.chain)
    /\ call' = [call EXCEPT !.phase = "return"]
    /\ UNCHANGED slow_threshold
    /\ UNCHANGED env

FixtureReports ==
    {r \in Reports :
        /\ r.nodeid = PytestNodes["T1"].nodeid
        /\ r.when \in {"setup", "call", "teardown"}
        /\ Cardinality({o \in {"passed", "failed", "skipped"} : r[o]}) = 1
        /\ ~r.wasxfail
        /\ r.duration = 1
        /\ r.longreprtext = "boom"
        /\ r.sections = <<Section>>}

CallUpdateFixtures ==
    /\ call = Idle
    /\ \E report \in FixtureReports : CallUpdate(report)

NextFixtures ==
    \/ CallBuildFixtures
    \/ BuildLinks
    \/ CallUpdateFixtures
    \/ Update
    \/ Return

SpecFixtures == Init /\ [][NextFixtures]_vars

\* find_by_nodeid on trees made by hand, as the tests of model.py make them:
\* four nodes in one of the shapes below, with any nodeids, equal ones
\* included.
FindHandles == {"n1", "n2", "n3", "n4"}

FindNodeIds == {"a", "b", "c"}

\* The nodeids that are looked up; no node has the last one.
FindLookups == FindNodeIds \cup {"missing"}

NoChildren == [h \in FindHandles |-> <<>>]

FindShapes ==
    { [roots |-> <<"n1", "n4">>,
       children |-> [NoChildren EXCEPT !["n1"] = <<"n2", "n3">>]],
      [roots |-> <<"n1">>,
       children |-> [NoChildren EXCEPT !["n1"] = <<"n2", "n4">>,
                                       !["n2"] = <<"n3">>]],
      [roots |-> <<"n1", "n2">>,
       children |-> [NoChildren EXCEPT !["n2"] = <<"n3">>,
                                       !["n3"] = <<"n4">>]],
      [roots |-> <<"n1">>,
       children |-> [NoChildren EXCEPT !["n2"] = <<"n3">>]],
      [roots |-> <<>>, children |-> NoChildren] }

FindTrees ==
    { [roots |-> shape.roots,
       nodes |-> [h \in FindHandles |->
                     [DescribeNode(<<>>, <<>>, "", DESCRIBE, ids[h])
                         EXCEPT !.children = shape.children[h]]]] :
        shape \in FindShapes, ids \in [FindHandles -> FindNodeIds] }

InitFind ==
    /\ \E tree \in FindTrees :
          /\ nodes = tree.nodes
          /\ roots = tree.roots
    /\ slow_threshold = DefaultSlowThreshold
    /\ seen = <<>>
    /\ InitEnv
    /\ call = Idle

\* tree.find_by_nodeid(nodeid) is called.
CallFind ==
    /\ call = Idle
    /\ \E nodeid \in FindLookups :
          call' = [op |-> "find", phase |-> "entry", nodeid |-> nodeid]
    /\ UNCHANGED <<nodes, roots, slow_threshold, seen>>
    /\ UNCHANGED env

\* find_by_nodeid runs.
Find ==
    /\ call.op = "find"
    /\ call.phase = "entry"
    /\ call' = [op |-> "find", phase |-> "return", nodeid |-> call.nodeid,
                result |-> find_by_nodeid(nodes, roots, call.nodeid)]
    /\ UNCHANGED <<nodes, roots, slow_threshold, seen>>
    /\ UNCHANGED env

NextFind ==
    \/ CallFind
    \/ Find
    \/ Return

SpecFind == InitFind /\ [][NextFind]_vars

\* pytest calls reporter.pytest_runtest_logreport(report).
CallLogreport(report) ==
    /\ Len(tw) < MaxLines
    /\ call' = [op |-> "logreport", phase |-> "entry", report |-> report]
    /\ UNCHANGED <<nodes, roots, slow_threshold, seen>>
    /\ UNCHANGED env

\* pytest_runtest_logreport runs.
Logreport ==
    /\ call.op = "logreport"
    /\ call.phase = "entry"
    /\ LET after == pytest_runtest_logreport(nodes, roots, slow_threshold,
                                             reporter, call.report)
       IN  /\ nodes' = after.nodes
           /\ reporter' = [reporter EXCEPT
                              !.current_stack = after.current_stack]
           /\ tw' = tw \o after.lines
    /\ call' = [call EXCEPT !.phase = "return"]
    /\ UNCHANGED <<roots, slow_threshold, seen, config, files, runner>>

\* A reporter with any options, the session of SuiteItems, and the reports
\* of the three phases of a test of the tree, of its describe block and of a
\* test that is not in the tree.
TerminalReports ==
    {r \in Reports :
        /\ r.nodeid \in {PytestNodes[l].nodeid : l \in {"T1", "D", "T3"}}
        /\ r.when \in {"setup", "call", "teardown"}
        /\ Cardinality({o \in {"passed", "failed", "skipped"} : r[o]}) = 1
        /\ ~r.wasxfail
        /\ r.duration = 1
        /\ r.longreprtext = "boom"
        /\ r.sections = <<>>}

InitTerminal ==
    /\ nodes = <<>>
    /\ roots = <<>>
    /\ slow_threshold = DefaultSlowThreshold
    /\ seen = <<>>
    /\ call = Idle
    /\ reporter \in {NewReporter(e, n) : e \in BOOLEAN, n \in BOOLEAN}
    /\ tw = <<>>
    /\ config = DefaultConfig
    /\ files = <<>>
    /\ runner = <<>>

CallLogreportTerminal ==
    /\ call = Idle
    /\ \E report \in TerminalReports : CallLogreport(report)

NextTerminal ==
    \/ CallBuildSuite
    \/ Build
    \/ CallLogreportTerminal
    \/ Logreport
    \/ Return

SpecTerminal == InitTerminal /\ [][NextTerminal]_vars

\* generate_report on trees made by hand, as the tests of html_reporter.py
\* make them: a file, the describe blocks A and B and the tests t1 and t2 in
\* one of the shapes below, each test with any outcome or without a result.
HtmlHandles == {"file", "A", "B", "t1", "t2"}

HtmlOutcomes == {PENDING, PASSED, FAILED, SKIPPED, XFAILED, XPASSED, ERROR}

\* The results a test of these trees can have: none, or one of each outcome,
\* with a longrepr when it is FAILED or ERROR.
HtmlResults ==
    {<<>>} \cup
    { << [TestResult(<<>>) EXCEPT
             !.outcome = o, !.duration = 1,
             !.longrepr = IF o \in {FAILED, ERROR} THEN "boom" ELSE ""] >> :
        o \in HtmlOutcomes }

NoHtmlChildren == [h \in HtmlHandles |-> <<>>]

HtmlShapes ==
    { [NoHtmlChildren EXCEPT !["file"] = <<"A">>,
                             !["A"] = <<"B", "t2">>,
                             !["B"] = <<"t1">>],
      [NoHtmlChildren EXCEPT !["file"] = <<"A", "B">>,
                             !["A"] = <<"t1">>,
                             !["B"] = <<"t2">>],
      [NoHtmlChildren EXCEPT !["file"] = <<"A", "t2">>,
                             !["A"] = <<"B">>,
                             !["B"] = <<"t1">>],
      [NoHtmlChildren EXCEPT !["file"] = <<"A", "t1", "t2">>,
                             !["A"] = <<"B">>] }

HtmlNode(h, children, r1, r2) ==
    LET node_type == IF h = "file" THEN FILE
                     ELSE IF h \in {"A", "B"} THEN DESCRIBE ELSE TEST
        node == DescribeNode(<<h>>, <<h>>, "", node_type, h)
    IN  [node EXCEPT !.children = children[h],
                     !.result = IF h = "t1" THEN r1
                                ELSE IF h = "t2" THEN r2 ELSE <<>>]

HtmlTrees ==
    { [h \in HtmlHandles |-> HtmlNode(h, children, r1, r2)] :
        children \in HtmlShapes, r1 \in HtmlResults, r2 \in HtmlResults }

ReportPath == "report.html"

InitHtml ==
    /\ nodes \in HtmlTrees
    /\ roots = <<"file">>
    /\ slow_threshold = DefaultSlowThreshold
    /\ seen = <<>>
    /\ InitEnv
    /\ call = Idle

\* HtmlReporter().generate_report(tree, output_path) is called.
CallGenerate ==
    /\ call = Idle
    /\ call' = [op |-> "generate", phase |-> "entry", path |-> ReportPath]
    /\ UNCHANGED <<nodes, roots, slow_threshold, seen>>
    /\ UNCHANGED env

\* generate_report runs.
Generate ==
    /\ call.op = "generate"
    /\ call.phase = "entry"
    /\ files' = (call.path :> generate_report(nodes, roots,
                                              DefaultSlowThreshold)) @@ files
    /\ call' = [call EXCEPT !.phase = "return"]
    /\ UNCHANGED <<nodes, roots, slow_threshold, seen, reporter, tw, config,
                 runner>>

NextHtml ==
    \/ CallGenerate
    \/ Generate
    \/ Return

SpecHtml == InitHtml /\ [][NextHtml]_vars

\* The session as pytest runs it with the plugin loaded: the hooks of
\* plugin.py, each called once, and the hooks of the reporter while it is
\* registered.  The config has any options, and attributes that something
\* else may have set on it before.
PluginConfigs ==
    { [DefaultConfig EXCEPT !.describe_beautifully = activate,
                            !.describe_html = html,
                            !.html_path = path,
                            !.html_reporter = rep] :
        activate \in BOOLEAN,
        html \in {<<>>, <<"">>, <<ReportPath>>},
        path \in {<<>>, <<ReportPath>>},
        rep \in {<<>>, <<HtmlReporter(DefaultSlowThreshold)>>} }

InitPlugin ==
    /\ nodes = <<>>
    /\ roots = <<>>
    /\ slow_threshold = DefaultSlowThreshold
    /\ seen = <<>>
    /\ call = Idle
    /\ reporter = NewReporter(FALSE, FALSE)
    /\ tw = <<>>
    /\ config \in PluginConfigs
    /\ files = <<>>
    /\ runner = <<>>

\* pytest calls pytest_configure(config), once.
CallConfigure ==
    /\ call = Idle
    /\ ~config.configured
    /\ call' = [op |-> "configure", phase |-> "entry"]
    /\ UNCHANGED <<nodes, roots, slow_threshold, seen>>
    /\ UNCHANGED env

\* pytest_configure runs: when the plugin is activated, a reporter with a
\* collector of its own is made and registered.
Configure ==
    /\ call.op = "configure"
    /\ call.phase = "entry"
    /\ config' = pytest_configure(config)
    /\ IF _should_activate(config)
       THEN /\ reporter' = NewReporter(config.describe_expand_all,
                                       config.describe_no_fixtures)
            /\ nodes' = <<>>
            /\ roots' = <<>>
            /\ slow_threshold' = DefaultSlowThreshold
            /\ seen' = <<>>
       ELSE UNCHANGED <<reporter, nodes, roots, slow_threshold, seen>>
    /\ call' = [call EXCEPT !.phase = "return"]
    /\ UNCHANGED <<tw, files, runner>>

\* pytest calls pytest_sessionfinish(session), once.
CallSessionFinish ==
    /\ call = Idle
    /\ ~config.finished
    /\ call' = [op |-> "sessionfinish", phase |-> "entry"]
    /\ UNCHANGED <<nodes, roots, slow_threshold, seen>>
    /\ UNCHANGED env

\* pytest_sessionfinish runs.
SessionFinish ==
    /\ call.op = "sessionfinish"
    /\ call.phase = "entry"
    /\ files' = IF ShouldGenerate(config)
                THEN (config.html_path[1] :>
                         generate_report(nodes, roots,
                             config.html_reporter[1].slow_threshold))
                     @@ files
                ELSE files
    /\ config' = [config EXCEPT !.finished = TRUE]
    /\ call' = [call EXCEPT !.phase = "return"]
    /\ UNCHANGED <<nodes, roots, slow_threshold, seen, reporter, tw, runner>>

\* pytest calls pytest_unconfigure(config).
CallUnconfigure ==
    /\ call = Idle
    /\ call' = [op |-> "unconfigure", phase |-> "entry"]
    /\ UNCHANGED <<nodes, roots, slow_threshold, seen>>
    /\ UNCHANGED env

\* pytest_unconfigure runs.
Unconfigure ==
    /\ call.op = "unconfigure"
    /\ call.phase = "entry"
    /\ config' = pytest_unconfigure(config)
    /\ call' = [call EXCEPT !.phase = "return"]
    /\ UNCHANGED <<nodes, roots, slow_threshold, seen, reporter, tw, files,
                 runner>>

\* The reports of the call of it_x, passed or failed.
PluginReports ==
    {r \in TerminalReports :
        /\ r.nodeid = PytestNodes["T1"].nodeid
        /\ r.when = "call"
        /\ ~r.skipped}

\* pytest calls the hooks of the reporter while it is registered.
HookModifyitems ==
    /\ ReporterName \in config.plugins
    /\ CallBuildSuite

HookLogreport ==
    /\ ReporterName \in config.plugins
    /\ call = Idle
    /\ \E report \in PluginReports : CallLogreport(report)

NextPlugin ==
    \/ CallConfigure
    \/ Configure
    \/ HookModifyitems
    \/ Build
    \/ HookLogreport
    \/ Logreport
    \/ CallSessionFinish
    \/ SessionFinish
    \/ CallUnconfigure
    \/ Unconfigure
    \/ Return

SpecPlugin == InitPlugin /\ [][NextPlugin]_vars

\* The two humanizers on every name: a prefix (none, one of the two, the two
\* in a row, or one in the wrong case) followed by a short remainder.
Names ==
    { p \o r :
        p \in {<<>>, LowerPrefix, UpperPrefix, LowerPrefix \o UpperPrefix,
               <<"D","E","S","C","R","I","B","E","_">>},
        r \in SeqsUpTo({"M", "y", "_", " "}, MaxNameLen) }

InitNaming ==
    /\ nodes = <<>>
    /\ roots = <<>>
    /\ slow_threshold = DefaultSlowThreshold
    /\ seen = <<>>
    /\ InitEnv
    /\ call \in {[op |-> "humanize", phase |-> "entry", name |-> n] :
                    n \in Names}

Humanize ==
    /\ call.op = "humanize"
    /\ call.phase = "entry"
    /\ call' = [op |-> "humanize", phase |-> "return", name |-> call.name,
                describe |-> humanize_describe_name(call.name),
                test |-> humanize_test_name(call.name)]
    /\ UNCHANGED <<nodes, roots, slow_threshold, seen, env>>

NextNaming == Humanize

SpecNaming == InitNaming /\ [][NextNaming]_vars

\* The events of a session: two collections of which the second adds a test
\* of another file, a collection that registers a test outside the
\* hierarchy, and result events of every phase for the three tests, in any
\* order.
EventItems ==
    { << <<"S", "F", "D", "T1">> >>,
      << <<"S", "F", "D", "T1">>, <<"S", "G", "T3">> >>,
      << <<"S", "T2">> >> }

EventReports ==
    { [nodeid |-> PytestNodes["T1"].nodeid, when |-> w,
       passed |-> o = "passed", failed |-> o = "failed",
       skipped |-> o = "skipped", wasxfail |-> FALSE, duration |-> d,
       has_longreprtext |-> TRUE, longreprtext |-> "boom",
       sections |-> sec] :
        w \in {"setup", "call", "teardown"},
        o \in {"passed", "failed", "skipped"},
        d \in 1..MaxDuration, sec \in {<<>>, <<Section>>} }
    \cup
    { [nodeid |-> PytestNodes[l].nodeid, when |-> w,
       passed |-> o = "passed", failed |-> o = "failed",
       skipped |-> o = "skipped", wasxfail |-> FALSE, duration |-> 1,
       has_longreprtext |-> TRUE, longreprtext |-> "boom",
       sections |-> <<Section>>] :
        l \in {"T2", "T3"},
        w \in {"setup", "call", "teardown"},
        o \in {"passed", "failed", "skipped"} }

CallBuildEvents ==
    /\ call = Idle
    /\ \E items \in EventItems : CallBuild(items)

CallUpdateEvents ==
    /\ call = Idle
    /\ \E report \in EventReports : CallUpdate(report)

NextEvents ==
    \/ CallBuildEvents
    \/ Build
    \/ CallUpdateEvents
    \/ Update
    \/ Return

SpecEvents == Init /\ [][NextEvents]_vars

\* A test run: the items of a module with a describe block nested in
\* another and of a module without blocks, and an item whose chain holds no
\* module (its test is registered outside the hierarchy), are collected in
\* order, then
\* pytest's runtestprotocol sends the reports of each test in order (the
\* setup report, the call report if the setup passed, the teardown report),
\* the reports of different tests in any interleaving.
RunChains ==
    LET file  == ModuleLink("n.py", <<"n", ".", "p", "y">>)
        outer == DescribeLink("n.py::describe_Outer",
                              LowerPrefix \o <<"O", "u", "t", "e", "r">>,
                              "Outer.")
        inner == DescribeLink("n.py::describe_Outer::describe_inner",
                              LowerPrefix \o <<"i", "n", "n", "e", "r">>,
                              "")
    IN  << <<SessionLink, file, outer, inner,
             FunctionLink("n.py::describe_Outer::describe_inner::it_works",
                          <<"i", "t", "_", "w", "o", "r", "k", "s">>, "",
                          <<>>)>>,
           <<SessionLink, PytestNodes["G"], PytestNodes["T3"]>>,
           <<SessionLink, file, outer,
             FunctionLink("n.py::describe_Outer::it_top",
                          <<"i", "t", "_", "t", "o", "p">>, "", <<>>)>>,
           <<SessionLink, PytestNodes["T2"]>> >>

\* pytest_collection_modifyitems for the next item, before any test runs.
CallBuildRun ==
    /\ call = Idle
    /\ \A t \in DOMAIN runner : runner[t] = "setup"
    /\ \E k \in 1..Len(RunChains) :
          LET chain == RunChains[k]
          IN  /\ k = Cardinality(DOMAIN runner) + 1
              /\ call' = [op |-> "build_chain", phase |-> "entry",
                          chain |-> chain]
              /\ runner' = runner @@ (chain[Len(chain)].nodeid :> "setup")
    /\ UNCHANGED <<nodes, roots, slow_threshold, seen, reporter, tw, config,
                   files>>

\* runtestprotocol sends the next report of a test: call_and_report for
\* "setup", for "call" if the setup report passed, for "teardown".
CallLogreportRun ==
    /\ call = Idle
    /\ \E test \in DOMAIN runner, outcome \in {"passed", "failed", "skipped"} :
          LET when == runner[test]
              next == IF when = "setup"
                      THEN IF outcome = "passed" THEN "call" ELSE "teardown"
                      ELSE IF when = "call" THEN "teardown" ELSE "done"
          IN  /\ when # "done"
              /\ when = "teardown" => outcome # "skipped"
              /\ call' = [op |-> "logreport", phase |-> "entry",
                          report |->
                              [nodeid |-> test, when |-> when,
                               passed |-> outcome = "passed",
                               failed |-> outcome = "failed",
                               skipped |-> outcome = "skipped",
                               wasxfail |-> FALSE, duration |-> 1,
                               has_longreprtext |-> TRUE,
                               longreprtext |-> IF outcome = "failed"
                                                THEN "boom" ELSE "",
                               sections |-> <<>>]]
              /\ runner' = [runner EXCEPT ![test] = next]
    /\ UNCHANGED <<nodes, roots, slow_threshold, seen, reporter, tw, config,
                   files>>

NextRun ==
    \/ CallBuildRun
    \/ BuildLinks
    \/ CallLogreportRun
    \/ Logreport
    \/ Return

SpecRun == Init /\ [][NextRun]_vars

\* The same collection, and reports that are rendered (a passed call, a
\* skipped setup) or not (a passed teardown) for the three tests, in any
\* order and any number of times while the terminal holds fewer than
\* MaxHeaderLines lines.
HeaderReports ==
    { [nodeid |-> chain[Len(chain)].nodeid, when |-> k[1],
       passed |-> k[2] = "passed", failed |-> FALSE,
       skipped |-> k[2] = "skipped", wasxfail |-> FALSE, duration |-> 1,
       has_longreprtext |-> FALSE, longreprtext |-> "", sections |-> <<>>] :
        chain \in {RunChains[i] : i \in 1..Len(RunChains)},
        k \in {<<"call", "passed">>, <<"setup", "skipped">>,
               <<"teardown", "passed">>} }

CallLogreportHeaders ==
    /\ call = Idle
    /\ Len(tw) < MaxHeaderLines
    /\ \E report \in HeaderReports :
          call' = [op |-> "logreport", phase |-> "entry", report |-> report]
    /\ UNCHANGED <<nodes, roots, slow_threshold, seen, env>>

NextHeaders ==
    \/ CallBuildRun
    \/ BuildLinks
    \/ CallLogreportHeaders
    \/ Logreport
    \/ Return

SpecHeaders == InitTerminal /\ [][NextHeaders]_vars

\* _map_outcome on every report.
InitMap ==
    /\ nodes = <<>>
    /\ roots = <<>>
    /\ slow_threshold = DefaultSlowThreshold
    /\ seen = <<>>
    /\ InitEnv
    /\ call \in {[op |-> "map_outcome", phase |-> "entry", report |-> r] :
                    r \in Reports}

NextMap == MapOutcome

SpecMap == InitMap /\ [][NextMap]_vars

(***************************************************************************)
(* Properties.                                                             *)
(***************************************************************************)
Entered(op)  == call.op = op /\ call.phase = "entry"
Returned(op) == call.op = op /\ call.phase = "return"

Range(seq) == {seq[i] : i \in 1..Len(seq)}

\* The nodeids of the nodes of the hierarchy: the roots and, transitively,
\* their children.
RECURSIVE Closure(_, _)
Closure(ns, S) ==
    LET more == S \cup UNION {Range(ns[n].children) : n \in S}
    IN  IF more = S THEN S ELSE Closure(ns, more)

InTree(ns, rs) == Closure(ns, Range(rs))

\* The report targets a node of the hierarchy that has a Result.
TargetHasResult(ns, rs, report) ==
    /\ report.nodeid \in InTree(ns, rs)
    /\ ns[report.nodeid].result # <<>>

\* The outcome mapping as the specification states it.
OutcomeMapping(report) ==
    CASE report.wasxfail /\ report.passed -> XPASSED
      [] report.wasxfail /\ ~report.passed -> XFAILED
      [] ~report.wasxfail /\ report.passed -> PASSED
      [] ~report.wasxfail /\ ~report.passed /\ report.failed -> FAILED
      [] ~report.wasxfail /\ ~report.passed /\ ~report.failed
            /\ report.skipped -> SKIPPED
      [] ~report.wasxfail /\ ~report.passed /\ ~report.failed
            /\ ~report.skipped -> PENDING

IdT1 == PytestNodes["T1"].nodeid
IdT2 == PytestNodes["T2"].nodeid
IdF  == PytestNodes["F"].nodeid
IdG  == PytestNodes["G"].nodeid
IdD  == PytestNodes["D"].nodeid

\* C1: a "call" report whose target is a node of the hierarchy with a Result
\* always sets the outcome to the outcome mapping of the report, the duration
\* to the report's duration and the sections to the report's sections,
\* whatever the Result held before.
C1_CallOverwrites ==
    [][ (/\ Entered("update")
         /\ call.report.when = "call"
         /\ TargetHasResult(nodes, roots, call.report))
        => (/\ nodes'[call.report.nodeid].result # <<>>
            /\ LET r == nodes'[call.report.nodeid].result[1]
               IN  /\ r.outcome = OutcomeMapping(call.report)
                   /\ r.duration = call.report.duration
                   /\ r.sections = call.report.sections) ]_vars

\* A call report without sections has replaced the sections of a Result that
\* an earlier report had already filled in.
C1_Witness ==
    /\ Returned("update")
    /\ call.report.when = "call"
    /\ call.report.nodeid = IdT1
    /\ call.report.sections = <<>>
    /\ call.report.wasxfail /\ call.report.passed
    /\ IdT1 \in InTree(nodes, roots)
    /\ nodes[IdT1].result # <<>>
    /\ nodes[IdT1].result[1].outcome = XPASSED
    /\ nodes[IdT1].result[1].duration = call.report.duration
    /\ nodes[IdT1].result[1].sections = <<>>
    /\ nodes[IdT1].result[1].longrepr = "boom"

\* C2: a failed "setup" or "teardown" report whose target has a Result sets
\* the outcome to ERROR and the duration to the report's duration, whatever
\* the expected-failure marker, the passed and skipped flags and the previous
\* outcome are.
C2_SetupTeardownFailureIsError ==
    [][ (/\ Entered("update")
         /\ call.report.when \in {"setup", "teardown"}
         /\ call.report.failed
         /\ TargetHasResult(nodes, roots, call.report))
        => (/\ nodes'[call.report.nodeid].result # <<>>
            /\ LET r == nodes'[call.report.nodeid].result[1]
               IN  /\ r.outcome = ERROR
                   /\ r.outcome \notin {XFAILED, XPASSED}
                   /\ r.duration = call.report.duration) ]_vars

\* A failed teardown report that carries the expected-failure marker and the
\* passed flag has left ERROR.
C2_Witness ==
    /\ Returned("update")
    /\ call.report.when = "teardown"
    /\ call.report.failed /\ call.report.passed /\ call.report.wasxfail
    /\ call.report.nodeid = IdT1
    /\ IdT1 \in InTree(nodes, roots)
    /\ nodes[IdT1].result # <<>>
    /\ nodes[IdT1].result[1].outcome = ERROR
    /\ nodes[IdT1].result[1].duration = call.report.duration

\* C3: _map_outcome returns, for every combination of the marker and the three
\* flags, what the outcome mapping of the specification gives: XPASSED or
\* XFAILED with the marker (by passed alone), else PASSED, FAILED, SKIPPED,
\* PENDING in this order of precedence.
C3_MapOutcome ==
    Returned("map_outcome") => call.result = OutcomeMapping(call.report)

\* The marker with none of the three flags set gave XFAILED.
C3_Witness ==
    /\ Returned("map_outcome")
    /\ call.report.wasxfail
    /\ ~call.report.passed /\ ~call.report.failed /\ ~call.report.skipped
    /\ call.result = XFAILED

\* The overall outcome of the node n as the specification states it, from the
\* set of the overall outcomes of its children.
ExpectedOverall(ns, n) ==
    LET kids == ns[n].children
        outs == {overall_outcome(ns, kids[i]) : i \in 1..Len(kids)}
        fails == outs \cap {FAILED, ERROR} # {}
    IN  IF ns[n].node_type = TEST
        THEN IF ns[n].result = <<>> THEN PENDING ELSE ns[n].result[1].outcome
        ELSE CASE kids = <<>> -> PENDING
               [] kids # <<>> /\ fails -> FAILED
               [] kids # <<>> /\ ~fails /\ XPASSED \in outs -> XPASSED
               [] kids # <<>> /\ ~fails /\ XPASSED \notin outs
                     /\ outs = {SKIPPED} -> SKIPPED
               [] kids # <<>> /\ ~fails /\ XPASSED \notin outs
                     /\ outs = {PENDING} -> PENDING
               [] kids # <<>> /\ ~fails /\ XPASSED \notin outs
                     /\ outs # {SKIPPED} /\ outs # {PENDING} -> PASSED

\* C4: the overall outcome of every node is the one the precedence of the
\* specification gives: for a node that is not a test PENDING without
\* children, else FAILED with a FAILED or ERROR child, else XPASSED with an
\* XPASSED child, else SKIPPED if all children are SKIPPED, else PENDING if
\* all are PENDING, else PASSED; for a test the outcome of its Result, or
\* PENDING without a Result.
C4_OverallOutcome ==
    \A n \in DOMAIN nodes : overall_outcome(nodes, n) = ExpectedOverall(nodes, n)

\* The file f.py has a FAILED child (the describe block, whose test is in
\* ERROR) beside an XPASSED child and is FAILED; the file g.py has no child.
C4_Witness ==
    /\ IdF \in DOMAIN nodes /\ IdG \in DOMAIN nodes
    /\ nodes[IdF].children = <<IdD, IdT2>>
    /\ nodes[IdT1].result # <<>>
    /\ nodes[IdT1].result[1].outcome = ERROR
    /\ overall_outcome(nodes, IdD) = FAILED
    /\ nodes[IdT2].result # <<>>
    /\ nodes[IdT2].result[1].outcome = XPASSED
    /\ overall_outcome(nodes, IdF) = FAILED
    /\ overall_outcome(nodes, IdG) = PENDING

\* The position of x in seq.
Pos(seq, x) == CHOOSE i \in 1..Len(seq) : seq[i] = x

\* The places of the hierarchy that hold the nodeid n: an index of the root
\* sequence or of a children sequence.
Places(n) ==
    {<<"roots", i>> : i \in {j \in 1..Len(roots) : roots[j] = n}}
    \cup UNION {{<<p, i>> : i \in {j \in 1..Len(nodes[p].children) :
                                      nodes[p].children[j] = n}} :
                p \in DOMAIN nodes}

FirstSeenOrder(seq) ==
    \A i, j \in 1..Len(seq) :
        i < j => /\ seq[i] \in Range(seen)
                 /\ seq[j] \in Range(seen)
                 /\ Pos(seen, seq[i]) < Pos(seen, seq[j])

\* C5: after any sequence of chains, the nodeids that were met on a link that
\* is not skipped are exactly those that have a node, each node is at most at
\* one place of the hierarchy (one index of the roots or of one children
\* sequence), and the roots and the children of every node are in the order
\* in which their nodeids were first met.
C5_OneNodePerIdentifier ==
    /\ DOMAIN nodes = Range(seen)
    /\ \A i, j \in 1..Len(seen) : i # j => seen[i] # seen[j]
    /\ \A n \in DOMAIN nodes :
          /\ nodes[n].nodeid = n
          /\ Cardinality(Places(n)) <= 1
          /\ FirstSeenOrder(nodes[n].children)
    /\ FirstSeenOrder(roots)

\* Chains that share the file f.py have been built: f.py is one root with
\* the describe block and the test first met under it as its children.
C5_Witness ==
    /\ Returned("build")
    /\ roots = <<IdG, IdF>>
    /\ IdD \in DOMAIN nodes /\ IdT1 \in DOMAIN nodes
    /\ nodes[IdF].children = <<IdD, IdT1>>
    /\ nodes[IdD].children = <<>>
    /\ nodes[IdG].children = <<>>

\* C6: build_from_items is idempotent: called again with the items it has
\* just been called with, it leaves the roots, every children sequence and
\* _nodes as they are.
C6_BuildIdempotent ==
    Returned("build")
        => build_from_items([nodes |-> nodes, roots |-> roots], call.items)
               = [nodes |-> nodes, roots |-> roots]

\* The session of three chains has been built, two of which share f.py.
C6_Witness ==
    /\ Returned("build")
    /\ call.items = SuiteItems
    /\ roots = <<IdF, IdG>>
    /\ nodes[IdF].children = <<IdD, IdT2>>
    /\ nodes[IdD].children = <<IdT1>>

\* C7: an update whose target is not found under the roots, or is found and
\* has no TestResult (a FILE or DESCRIBE node, or a test whose result was
\* cleared), in any phase and with any flags, creates no node and leaves the
\* roots, every children sequence, _nodes and every TestResult as they were.
C7_NoTargetNoEffect ==
    [][ (Entered("update") /\ ~TargetHasResult(nodes, roots, call.report))
            => (nodes' = nodes /\ roots' = roots) ]_vars

\* A failed call report for the test it_x, which is under the roots and whose
\* result was cleared, has returned.
C7_Witness ==
    /\ Returned("update")
    /\ call.report.nodeid = IdT1
    /\ call.report.when = "call"
    /\ call.report.failed
    /\ IdT1 \in InTree(nodes, roots)
    /\ nodes[IdT1].node_type = TEST
    /\ nodes[IdT1].result = <<>>

\* The reports the specification says are ignored.
Ignored(report) ==
    /\ report.when # "call"
    /\ ~(report.when \in {"setup", "teardown"} /\ report.failed)
    /\ ~(report.when = "setup" /\ report.skipped)

\* C8: a report that is not a call report, not a failed setup or teardown
\* report and not a skipped setup report (a setup report neither failed nor
\* skipped, a teardown report that did not fail, a report of any other phase)
\* leaves the TestResult of its target and the whole tree unchanged.
C8_OtherReportsIgnored ==
    [][ (Entered("update") /\ Ignored(call.report))
            => (nodes' = nodes /\ roots' = roots) ]_vars

\* A skipped teardown report, marked xfail and carrying a longrepr, has
\* returned for the test it_x, which still has the result of its passed call.
C8_Witness ==
    /\ Returned("update")
    /\ call.report.nodeid = IdT1
    /\ call.report.when = "teardown"
    /\ call.report.skipped /\ ~call.report.failed
    /\ call.report.wasxfail
    /\ CarriesLongrepr(call.report)
    /\ TargetHasResult(nodes, roots, call.report)
    /\ nodes[IdT1].result[1].outcome = PASSED
    /\ nodes[IdT1].result[1].longrepr = ""

\* C9: a setup report that is skipped and not failed, for a test with a
\* TestResult, sets the outcome to the mapping of the report and the duration
\* to the duration of the report, and leaves longrepr and sections as they
\* were, also when the report carries a longrepr.
C9_SetupSkip ==
    [][ (/\ Entered("update")
         /\ call.report.when = "setup"
         /\ call.report.skipped /\ ~call.report.failed
         /\ TargetHasResult(nodes, roots, call.report))
            => (/\ nodes'[call.report.nodeid].result # <<>>
                /\ LET old == nodes[call.report.nodeid].result[1]
                       new == nodes'[call.report.nodeid].result[1]
                   IN  /\ new.outcome = OutcomeMapping(call.report)
                       /\ new.duration = call.report.duration
                       /\ new.longrepr = old.longrepr
                       /\ new.sections = old.sections) ]_vars

\* A skipped setup report marked xfail, carrying a longrepr and no section,
\* has returned for it_x: the test is XFAILED, its longrepr is still empty and
\* it still has the section of an earlier call report.
C9_Witness ==
    /\ Returned("update")
    /\ call.report.nodeid = IdT1
    /\ call.report.when = "setup"
    /\ call.report.skipped /\ ~call.report.failed /\ ~call.report.passed
    /\ call.report.wasxfail
    /\ call.report.longreprtext = "boom"
    /\ call.report.sections = <<>>
    /\ TargetHasResult(nodes, roots, call.report)
    /\ nodes[IdT1].result[1].outcome = XFAILED
    /\ nodes[IdT1].result[1].duration = call.report.duration
    /\ nodes[IdT1].result[1].longrepr = ""
    /\ nodes[IdT1].result[1].sections = <<Section>>

HasLongrepr(ns, n) ==
    /\ n \in DOMAIN ns
    /\ ns[n].result # <<>>
    /\ ns[n].result[1].longrepr # ""

\* C10: a longrepr that is not empty is never erased: in every step a
\* TestResult whose longrepr is not empty keeps a longrepr that is not empty,
\* and a longrepr changes only in an update, on the call branch or the failed
\* setup or teardown branch, to the longrepr of the report, which is not
\* empty.
C10_LongreprNeverErased ==
    [][ \A n \in DOMAIN nodes :
           /\ HasLongrepr(nodes, n) => HasLongrepr(nodes', n)
           /\ (/\ nodes[n].result # <<>>
               /\ nodes'[n].result # <<>>
               /\ nodes'[n].result[1].longrepr # nodes[n].result[1].longrepr)
                  => /\ Entered("update")
                     /\ call.report.nodeid = n
                     /\ \/ call.report.when = "call"
                        \/ call.report.when \in {"setup", "teardown"}
                              /\ call.report.failed
                     /\ call.report.longreprtext # ""
                     /\ nodes'[n].result[1].longrepr = call.report.longreprtext
      ]_vars

\* A passed call report without the attribute longreprtext has returned for
\* it_x, which keeps the longrepr of an earlier report.
C10_Witness ==
    /\ Returned("update")
    /\ call.report.nodeid = IdT1
    /\ call.report.when = "call"
    /\ call.report.passed /\ ~call.report.failed /\ ~call.report.wasxfail
    /\ ~call.report.has_longreprtext
    /\ TargetHasResult(nodes, roots, call.report)
    /\ nodes[IdT1].result[1].outcome = PASSED
    /\ nodes[IdT1].result[1].longrepr = "boom"

\* C11: update_from_report is idempotent: in every state in which a report,
\* of any phase, has just been applied, applying the identical report again
\* gives the same results and the same tree.
C11_UpdateIdempotent ==
    Returned("update")
        => update_from_report(nodes, roots, call.report) = nodes

\* A failed call report with a longrepr and a section has been applied to
\* it_x.
C11_Witness ==
    /\ Returned("update")
    /\ call.report.nodeid = IdT1
    /\ call.report.when = "call"
    /\ call.report.failed /\ ~call.report.passed /\ ~call.report.wasxfail
    /\ call.report.sections = <<Section>>
    /\ TargetHasResult(nodes, roots, call.report)
    /\ nodes[IdT1].result[1].outcome = FAILED
    /\ nodes[IdT1].result[1].longrepr = "boom"
    /\ nodes[IdT1].result[1].sections = <<Section>>

\* No node counts more tests as passed, failed or skipped than it has, and a
\* test counts 0 or 1 in each of the three and in at most one of them.
NoDoubleCount(ns) ==
    \A n \in DOMAIN ns :
        /\ passed_count(ns, n) + failed_count(ns, n) + skipped_count(ns, n)
              <= test_count(ns, n)
        /\ ns[n].node_type = TEST
              => /\ passed_count(ns, n) \in {0, 1}
                 /\ failed_count(ns, n) \in {0, 1}
                 /\ skipped_count(ns, n) \in {0, 1}
                 /\ passed_count(ns, n) + failed_count(ns, n)
                       + skipped_count(ns, n) <= 1

\* C12: reports never count a test twice: after any sequence of reports,
\* repeated ones included, passed_count + failed_count + skipped_count is at
\* most test_count on every node and a test counts at most 1 in at most one
\* of the three; and a report changes neither the test_count of a node nor
\* total_tests.
C12_NoDoubleCount ==
    /\ [] NoDoubleCount(nodes)
    /\ [][ Entered("update")
              => /\ DOMAIN nodes' = DOMAIN nodes
                 /\ \A n \in DOMAIN nodes :
                       test_count(nodes', n) = test_count(nodes, n)
                 /\ total_tests(nodes', roots') = total_tests(nodes, roots)
         ]_vars

\* A report for it_y has returned after one for it_x: it_x is in ERROR, it_y
\* is SKIPPED, and f.py counts two tests, one failed and one skipped.
C12_Witness ==
    /\ Returned("update")
    /\ call.report.nodeid = IdT2
    /\ call.report.when = "call"
    /\ call.report.skipped /\ ~call.report.failed
    /\ TargetHasResult(nodes, roots, call.report)
    /\ nodes[IdT1].result # <<>>
    /\ nodes[IdT1].result[1].outcome = ERROR
    /\ nodes[IdT2].result[1].outcome = SKIPPED
    /\ test_count(nodes, IdF) = 2
    /\ passed_count(nodes, IdF) = 0
    /\ failed_count(nodes, IdF) = 1
    /\ skipped_count(nodes, IdF) = 1
    /\ total_tests(nodes, roots) = 2

\* The tests at or below the node n.
TestsUnder(ns, n) == {t \in Closure(ns, {n}) : ns[t].node_type = TEST}

\* Those of the tests whose result has one of the outcomes.
TestsWith(ns, tests, outcomes) ==
    {t \in tests :
        ns[t].result # <<>> /\ ns[t].result[1].outcome \in outcomes}

\* C13: on every node test_count is 1 for a test and else the number of the
\* tests below it; passed_count and skipped_count are the numbers of those
\* whose outcome is PASSED and SKIPPED, failed_count the number of those
\* whose outcome is FAILED or ERROR; a test that is XFAILED, XPASSED or
\* PENDING or has no result counts in test_count only.
C13_Counts ==
    \A n \in DOMAIN nodes :
      LET tests == TestsUnder(nodes, n)
      IN
        /\ test_count(nodes, n) =
              IF nodes[n].node_type = TEST THEN 1 ELSE Cardinality(tests)
        /\ passed_count(nodes, n) =
              Cardinality(TestsWith(nodes, tests, {PASSED}))
        /\ skipped_count(nodes, n) =
              Cardinality(TestsWith(nodes, tests, {SKIPPED}))
        /\ failed_count(nodes, n) =
              Cardinality(TestsWith(nodes, tests, {FAILED, ERROR}))
        /\ (/\ nodes[n].node_type = TEST
            /\ \/ nodes[n].result = <<>>
               \/ nodes[n].result[1].outcome \in {XFAILED, XPASSED, PENDING})
              => /\ test_count(nodes, n) = 1
                 /\ passed_count(nodes, n) = 0
                 /\ failed_count(nodes, n) = 0
                 /\ skipped_count(nodes, n) = 0

\* it_x is XPASSED and the result of it_y was cleared: f.py counts two tests
\* and none of them as passed, failed or skipped.
C13_Witness ==
    /\ IdT1 \in DOMAIN nodes /\ IdT2 \in DOMAIN nodes
    /\ nodes[IdT1].result # <<>>
    /\ nodes[IdT1].result[1].outcome = XPASSED
    /\ nodes[IdT2].result = <<>>
    /\ test_count(nodes, IdF) = 2
    /\ test_count(nodes, IdD) = 1
    /\ passed_count(nodes, IdF) = 0
    /\ failed_count(nodes, IdF) = 0
    /\ skipped_count(nodes, IdF) = 0

IdT3 == PytestNodes["T3"].nodeid

\* The sum of the values of the function f over the set S of its arguments.
RECURSIVE SumOver(_, _)
SumOver(f, S) ==
    IF S = {}
    THEN 0
    ELSE LET x == CHOOSE y \in S : TRUE
         IN  f[x] + SumOver(f, S \ {x})

\* C14: in every state total_tests, total_passed, total_failed, total_skipped
\* and total_duration are the sums over the roots of test_count,
\* passed_count, failed_count, skipped_count and aggregate_duration, and all
\* five are 0 for the empty tree.
C14_Totals ==
    LET R == DOMAIN roots
    IN  /\ total_tests(nodes, roots) =
              SumOver([i \in R |-> test_count(nodes, roots[i])], R)
        /\ total_passed(nodes, roots) =
              SumOver([i \in R |-> passed_count(nodes, roots[i])], R)
        /\ total_failed(nodes, roots) =
              SumOver([i \in R |-> failed_count(nodes, roots[i])], R)
        /\ total_skipped(nodes, roots) =
              SumOver([i \in R |-> skipped_count(nodes, roots[i])], R)
        /\ total_duration(nodes, roots) =
              SumOver([i \in R |-> aggregate_duration(nodes, roots[i])], R)
        /\ roots = <<>>
              => /\ total_tests(nodes, roots) = 0
                 /\ total_passed(nodes, roots) = 0
                 /\ total_failed(nodes, roots) = 0
                 /\ total_skipped(nodes, roots) = 0
                 /\ total_duration(nodes, roots) = 0

\* Two roots with tests: it_x passed and it_y failed in f.py, it_z was
\* skipped in g.py.
C14_Witness ==
    /\ roots = <<IdF, IdG>>
    /\ nodes[IdT1].result[1].outcome = PASSED
    /\ nodes[IdT2].result[1].outcome = FAILED
    /\ nodes[IdT3].result[1].outcome = SKIPPED
    /\ test_count(nodes, IdF) = 2
    /\ test_count(nodes, IdG) = 1
    /\ total_tests(nodes, roots) = 3
    /\ total_passed(nodes, roots) = 1
    /\ total_failed(nodes, roots) = 1
    /\ total_skipped(nodes, roots) = 1
    /\ total_duration(nodes, roots) =
          nodes[IdT1].result[1].duration + nodes[IdT2].result[1].duration
             + nodes[IdT3].result[1].duration
    /\ nodes[IdT1].result[1].duration # nodes[IdT2].result[1].duration

\* C15: in every state reached by builds and updates every node of the root
\* sequence is a FILE, and the roots are in the order in which their nodeids
\* were first met.
C15_RootsAreFiles ==
    /\ \A i \in 1..Len(roots) :
          /\ roots[i] \in DOMAIN nodes
          /\ nodes[roots[i]].node_type = FILE
    /\ FirstSeenOrder(roots)

\* g.py was met before f.py, the describe block was created without a parent
\* and is no root, and a report has been applied to it_x under f.py.
C15_Witness ==
    /\ Returned("update")
    /\ roots = <<IdG, IdF>>
    /\ IdD \in DOMAIN nodes
    /\ Places(IdD) = {}
    /\ nodes[IdF].children = <<IdT1>>
    /\ nodes[IdT1].result[1].outcome = FAILED

\* The nodes of ns whose children hold the nodeid n.
Parents(ns, n) == {p \in DOMAIN ns : n \in Range(ns[p].children)}

\* The node n is held by no children sequence and is no root.
Unplaced(ns, rs, n) == Parents(ns, n) = {} /\ n \notin Range(rs)

\* The nodes that the aggregates visit from the nodes of S: a test is
\* counted and its children are not visited.
RECURSIVE Counted(_, _)
Counted(ns, S) ==
    LET more == S \cup UNION {Range(ns[n].children) :
                                 n \in {m \in S : ns[m].node_type # TEST}}
    IN  IF more = S THEN S ELSE Counted(ns, more)

\* In the chain that is being built, the link at index i is met while no
\* parent has been resolved: it has no node yet, it is not skipped and every
\* link before it is skipped.
MetWithoutParent(chain, i) ==
    LET link == PytestNodes[chain[i]]
    IN  /\ link.nodeid \notin DOMAIN nodes
        /\ ~_classify_link(link).skip
        /\ \A j \in 1..(i - 1) : _classify_link(PytestNodes[chain[j]]).skip

\* C16: a DESCRIBE or TEST node created while no parent had been resolved in
\* its chain is registered in _nodes and added neither to the roots nor to
\* any children sequence; a node in that position stays in it through every
\* later build; and it and the nodes below it are not found by
\* find_by_nodeid, are not in the hierarchy under the roots, and their tests
\* are not counted by total_tests.
C16_OrphansStayOrphaned ==
    /\ [][ (Entered("build") /\ Len(call.items) = 1)
              => \A i \in 1..Len(call.items[1]) :
                    LET link == PytestNodes[call.items[1][i]]
                    IN  (/\ MetWithoutParent(call.items[1], i)
                         /\ _classify_link(link).node_type \in {DESCRIBE, TEST})
                           => /\ link.nodeid \in DOMAIN nodes'
                              /\ Unplaced(nodes', roots', link.nodeid)
         ]_vars
    /\ [][ \A n \in DOMAIN nodes :
              Unplaced(nodes, roots, n) => Unplaced(nodes', roots', n) ]_vars
    /\ [] (\A n \in DOMAIN nodes :
              Unplaced(nodes, roots, n)
                 => \A m \in Closure(nodes, {n}) :
                       /\ m \notin InTree(nodes, roots)
                       /\ find_by_nodeid(nodes, roots, m) = <<>>)
    /\ [] (total_tests(nodes, roots) =
              Cardinality({t \in Counted(nodes, Range(roots)) :
                              nodes[t].node_type = TEST}))

\* The describe block and, below it, it_x were created from a chain without
\* a file; a later chain listing both beneath f.py has been built: f.py is a
\* root without children and counts no test.
C16_Witness ==
    /\ Returned("build")
    /\ call.items = << <<"F", "D", "T1">> >>
    /\ roots = <<IdF>>
    /\ nodes[IdF].children = <<>>
    /\ IdD \in DOMAIN nodes
    /\ Unplaced(nodes, roots, IdD)
    /\ nodes[IdD].children = <<IdT1>>
    /\ find_by_nodeid(nodes, roots, IdT1) = <<>>
    /\ total_tests(nodes, roots) = 0

\* In the chain that is being built, the link at index i is met after a
\* parent has been resolved: it has no node yet, it is not skipped and a link
\* before it is not skipped.
MetWithParent(chain, i) ==
    LET link == PytestNodes[chain[i]]
    IN  /\ link.nodeid \notin DOMAIN nodes
        /\ ~_classify_link(link).skip
        /\ \E j \in 1..(i - 1) : ~_classify_link(PytestNodes[chain[j]]).skip

\* The nodeid of the last link before index i that is not skipped.
ResolvedParent(chain, i) ==
    LET j == CHOOSE k \in 1..(i - 1) :
                 /\ ~_classify_link(PytestNodes[chain[k]]).skip
                 /\ \A l \in (k + 1)..(i - 1) :
                       _classify_link(PytestNodes[chain[l]]).skip
    IN  PytestNodes[chain[j]].nodeid

\* C17 as stated: every node that is not in the root sequence is an element
\* of the children of exactly one node.
C17_Original ==
    \A n \in DOMAIN nodes :
        n \notin Range(roots) => Cardinality(Parents(nodes, n)) = 1

\* C17 as amended: every node that is not in the root sequence has at most
\* one parent and is at one index of its children at most; a node created
\* after a parent was resolved in its chain has exactly that parent, a
\* DESCRIBE or TEST node created while no parent was resolved has none, and
\* the parents of a node never change afterwards.
C17_AtMostOneParent ==
    /\ [] (\A n \in DOMAIN nodes :
              n \notin Range(roots)
                 => /\ Cardinality(Parents(nodes, n)) <= 1
                    /\ Cardinality(Places(n)) <= 1)
    /\ [][ (Entered("build") /\ Len(call.items) = 1)
              => \A i \in 1..Len(call.items[1]) :
                    LET chain == call.items[1]
                        id == PytestNodes[chain[i]].nodeid
                    IN  /\ MetWithParent(chain, i)
                           => Parents(nodes', id) = {ResolvedParent(chain, i)}
                        /\ (/\ MetWithoutParent(chain, i)
                            /\ _classify_link(PytestNodes[chain[i]]).node_type
                                  # FILE)
                           => Parents(nodes', id) = {}
         ]_vars
    /\ [][ \A n \in DOMAIN nodes :
              Parents(nodes', n) = Parents(nodes, n) ]_vars

\* it_x was created below f.py and has f.py as its one parent; the describe
\* block was created from a chain that begins with it and has no parent; a
\* chain that lists both beneath f.py has been built since.
C17_Witness ==
    /\ Returned("build")
    /\ call.items = << <<"F", "D", "T1">> >>
    /\ roots = <<IdF>>
    /\ Parents(nodes, IdT1) = {IdF}
    /\ nodes[IdF].children = <<IdT1>>
    /\ IdD \in DOMAIN nodes
    /\ Parents(nodes, IdD) = {}
    /\ IdD \notin Range(roots)

\* C18 as stated: every FILE node is in the root sequence and is not a child
\* of any node.
C18_FileAlwaysRoot ==
    \A n \in DOMAIN nodes :
        nodes[n].node_type = FILE
           => /\ n \in Range(roots)
              /\ Parents(nodes, n) = {}

\* C19: when only the last link of a chain is a test, in every state reached
\* by builds and updates a node has a TestResult if and only if it is a
\* TEST, and a TEST has no children.
C19_ResultIffTest ==
    \A n \in DOMAIN nodes :
        /\ nodes[n].result # <<>> <=> nodes[n].node_type = TEST
        /\ nodes[n].node_type = TEST => nodes[n].children = <<>>

\* f.py holds the describe block, which holds it_x; a failed call report has
\* been applied to it_x.
C19_Witness ==
    /\ Returned("update")
    /\ call.report.when = "call"
    /\ roots = <<IdF>>
    /\ nodes[IdF].children = <<IdD>>
    /\ nodes[IdD].children = <<IdT1>>
    /\ nodes[IdT1].children = <<>>
    /\ nodes[IdT1].result # <<>>
    /\ nodes[IdT1].result[1].outcome = FAILED
    /\ nodes[IdF].result = <<>>
    /\ nodes[IdD].result = <<>>

IsPrefix(s, t) ==
    /\ Len(s) <= Len(t)
    /\ \A i \in 1..Len(s) : s[i] = t[i]

\* C20: in every step of builds and updates an existing node stays in
\* _nodes under its nodeid and keeps its nodeid, type, name, display name
\* and docstring; its children and the roots change only by appending.
C20_NodesImmutable ==
    [][ /\ \A n \in DOMAIN nodes :
              /\ n \in DOMAIN nodes'
              /\ nodes'[n].nodeid = nodes[n].nodeid
              /\ nodes'[n].node_type = nodes[n].node_type
              /\ nodes'[n].name = nodes[n].name
              /\ nodes'[n].display_name = nodes[n].display_name
              /\ nodes'[n].docstring = nodes[n].docstring
              /\ IsPrefix(nodes[n].children, nodes'[n].children)
        /\ IsPrefix(roots, roots')
      ]_vars

\* After a failure report for it_x under f.py, the chain [f.py, describe_a_b]
\* has been built: the describe block is the second child of f.py, and g.py
\* is the second root.
C20_Witness ==
    /\ Returned("build")
    /\ call.items = << <<"F", "D">> >>
    /\ roots = <<IdF, IdG>>
    /\ nodes[IdF].children = <<IdT1, IdD>>
    /\ nodes[IdT1].result # <<>>
    /\ nodes[IdT1].result[1].outcome = ERROR
    /\ nodes[IdF].display_name = PytestNodes["F"].name
    /\ nodes[IdD].docstring = "A b."

\* In the chain, the link at index i comes directly after a skipped link and
\* after a link that is not skipped.
BelowSkipped(chain, i) ==
    /\ i > 1
    /\ _classify_link(PytestNodes[chain[i - 1]]).skip
    /\ \E j \in 1..(i - 1) : ~_classify_link(PytestNodes[chain[j]]).skip

\* C21: a link that classifies as skipped gets no node and leaves
\* parent_node as it is: a node created directly after skipped links is
\* appended, as the last child, to the node of the last link before it that
\* is not skipped, and to no other node.
C21_SkipKeepsParent ==
    [][ (Entered("build") /\ Len(call.items) = 1)
           => LET chain == call.items[1]
              IN  \A i \in 1..Len(chain) :
                     LET link == PytestNodes[chain[i]]
                     IN  /\ _classify_link(link).skip
                            => link.nodeid \notin DOMAIN nodes'
                         /\ (/\ BelowSkipped(chain, i)
                             /\ ~_classify_link(link).skip
                             /\ link.nodeid \notin DOMAIN nodes)
                            => LET p == ResolvedParent(chain, i)
                               IN  /\ link.nodeid \in DOMAIN nodes'
                                   /\ Parents(nodes', link.nodeid) = {p}
                                   /\ nodes'[p].children # <<>>
                                   /\ nodes'[p].children[Len(nodes'[p].children)]
                                         = link.nodeid
                                   /\ link.nodeid \notin Range(roots')
      ]_vars

\* The chain [f.py, Session, it_x] has been built: the Session has no node
\* and it_x is the child of f.py.
C21_Witness ==
    /\ Returned("build")
    /\ call.items = << <<"F", "S", "T1">> >>
    /\ SessionLink.nodeid \notin DOMAIN nodes
    /\ roots = <<IdF>>
    /\ nodes[IdF].children = <<IdT1>>
    /\ Parents(nodes, IdT1) = {IdF}

\* The link has the shape of a collector: it has fspath and collect.
CollectorShaped(link) == "fspath" \in link.attrs /\ "collect" \in link.attrs

\* The classifier has returned for a collector-shaped link that is not a
\* describe block.
ReturnedPlainCollector ==
    /\ Returned("classify")
    /\ CollectorShaped(call.link)
    /\ ~_is_describe_block(call.link)

\* The result is the FILE classification of the link: the raw name and an
\* empty docstring.
IsFileOf(result, link) ==
    /\ ~result.skip
    /\ result.node_type = FILE
    /\ result.display_name = link.name
    /\ result.docstring = ""
    /\ result.fixture_names = <<>>

\* C22, as stated: a collector-shaped link that is not a describe block is
\* skipped if it has reportinfo and otherwise is a FILE if it has path.
C22_Original ==
    ReturnedPlainCollector =>
        IF "reportinfo" \in call.link.attrs
        THEN call.result.skip
        ELSE "path" \in call.link.attrs => IsFileOf(call.result, call.link)

\* C22, amended: a collector-shaped link that is not a describe block is
\* skipped if it has path and no reportinfo, is a FILE (display name the raw
\* name, empty docstring) if it has path and reportinfo, and is skipped if
\* it has no path.
C22_PathWithReportinfoIsFile ==
    ReturnedPlainCollector =>
        IF "path" \in call.link.attrs
        THEN IF "reportinfo" \in call.link.attrs
             THEN IsFileOf(call.result, call.link)
             ELSE call.result.skip
        ELSE call.result.skip

C22_Witness ==
    /\ ReturnedPlainCollector
    /\ "path" \in call.link.attrs
    /\ "reportinfo" \in call.link.attrs
    /\ "function" \in call.link.attrs
    /\ call.result.node_type = FILE

\* C24: the collector shape is tested before the test shape and every link
\* is classified: the result is TEST exactly when the link is not
\* collector-shaped and has function; a collector-shaped link that is a
\* describe block is DESCRIBE whatever path or reportinfo it has; a link
\* with neither shape is skipped; and every combination of attributes gives
\* either a skip or one of the three node types.
C24_CollectorBeforeTest ==
    Returned("classify") =>
        LET link   == call.link
            result == call.result
        IN  /\ (~result.skip /\ result.node_type = TEST)
                <=> (~CollectorShaped(link) /\ "function" \in link.attrs)
            /\ (CollectorShaped(link) /\ _is_describe_block(link))
                => (~result.skip /\ result.node_type = DESCRIBE)
            /\ (~CollectorShaped(link) /\ "function" \notin link.attrs)
                => result.skip
            /\ result.skip \in BOOLEAN
            /\ ~result.skip => result.node_type \in {FILE, DESCRIBE, TEST}

C24_Witness ==
    /\ Returned("classify")
    /\ CollectorShaped(call.link)
    /\ "function" \in call.link.attrs
    /\ _is_describe_block(call.link)
    /\ "path" \notin call.link.attrs
    /\ call.result.node_type = DESCRIBE

\* The link is no describe block and has fspath and collect.
PlainCollector(link) == CollectorShaped(link) /\ ~_is_describe_block(link)

\* A built chain holds the link.
InBuiltChain(l) ==
    /\ Returned("build")
    /\ \E k \in 1..Len(call.items) : l \in Range(call.items[k])

\* C23: a non-describe link with fspath and collect never has a node if it
\* has path and no reportinfo (the Session) or if it has no path; if it has
\* path and reportinfo (a Module), then once a build of a chain that holds
\* it has run it has a FILE node with the raw name as display name and an
\* empty docstring.
C23_CollectorShapes ==
    \A l \in Links :
        LET link == PytestNodes[l]
        IN  PlainCollector(link) =>
                IF "path" \in link.attrs /\ "reportinfo" \in link.attrs
                THEN InBuiltChain(l) =>
                        /\ link.nodeid \in DOMAIN nodes
                        /\ nodes[link.nodeid].node_type = FILE
                        /\ nodes[link.nodeid].name = link.name
                        /\ nodes[link.nodeid].display_name = link.name
                        /\ nodes[link.nodeid].docstring = ""
                        /\ nodes[link.nodeid].result = <<>>
                ELSE link.nodeid \notin DOMAIN nodes

C23_Witness ==
    /\ Returned("build")
    /\ call.items = << <<"S", "F", "W">> >>
    /\ IdF \in DOMAIN nodes
    /\ PytestNodes["W"].nodeid \notin DOMAIN nodes
    /\ "" \notin DOMAIN nodes
    /\ roots = <<IdF>>

\* The fixture names a Function link declares: getattr(link, "fixturenames",
\* []).
Declared(link) ==
    IF "fixturenames" \in link.attrs THEN link.fixturenames ELSE <<>>

NotBuiltin(f) == f \notin BUILTIN_FIXTURES

\* A step creates the node of it_x.
CreatesT1 == IdT1 \notin DOMAIN nodes /\ IdT1 \in DOMAIN nodes'

\* C25: the fixture_names of the result of a new TEST node are the declared
\* fixture names of the link that are not in BUILTIN_FIXTURES, in their order
\* and as often as they are declared (none when the link has no fixturenames
\* attribute), and no later step, an update or another build, changes them.
C25_FixtureNames ==
    [][/\ CreatesT1 =>
            /\ call.op = "build_chain"
            /\ nodes'[IdT1].result # <<>>
            /\ nodes'[IdT1].result[1].fixture_names
                 = SelectSeq(Declared(call.chain[2]), NotBuiltin)
       /\ IdT1 \in DOMAIN nodes =>
            /\ IdT1 \in DOMAIN nodes'
            /\ nodes'[IdT1].result[1].fixture_names
                 = nodes[IdT1].result[1].fixture_names]_vars

C25_Witness ==
    /\ Returned("update")
    /\ call.report.when = "call"
    /\ call.report.failed
    /\ IdT1 \in DOMAIN nodes
    /\ nodes[IdT1].result[1].outcome = FAILED
    /\ nodes[IdT1].result[1].fixture_names = <<"db", "api">>

\* The report is one that update_from_report takes a result from: a call
\* report, a failed setup or teardown report, or a skipped setup report.
ResultReport(report) ==
    \/ report.when = "call"
    \/ report.when \in {"setup", "teardown"} /\ report.failed
    \/ report.when = "setup" /\ report.skipped

\* The test nodes whose outcome is PENDING.
PendingTests(ns) ==
    {n \in DOMAIN ns :
        /\ ns[n].node_type = TEST
        /\ ns[n].result # <<>>
        /\ ns[n].result[1].outcome = PENDING}

\* C26: a TEST node is created with outcome PENDING, duration 0, no longrepr
\* and no sections; its outcome stops being PENDING only in an update whose
\* report carries its nodeid and is a call report, a failed setup or teardown
\* report or a skipped setup report; and while it is PENDING the aggregates
\* are defined: it counts as one test, as neither passed, failed nor skipped,
\* with duration 0 and overall outcome PENDING, and a file whose tests are
\* all PENDING has overall outcome PENDING.
C26_PendingUntilResult ==
    /\ [](\A n \in PendingTests(nodes) :
             /\ overall_outcome(nodes, n) = PENDING
             /\ test_count(nodes, n) = 1
             /\ passed_count(nodes, n) = 0
             /\ failed_count(nodes, n) = 0
             /\ skipped_count(nodes, n) = 0
             /\ aggregate_duration(nodes, n) = nodes[n].result[1].duration)
    /\ [](\A i \in 1..Len(roots) :
             /\ overall_outcome(nodes, roots[i]) \in
                  {PENDING, PASSED, FAILED, SKIPPED, XFAILED, XPASSED, ERROR}
             /\ TestsUnder(nodes, roots[i]) \subseteq PendingTests(nodes)
                  => overall_outcome(nodes, roots[i]) = PENDING
             /\ total_tests(nodes, roots) \in Nat
             /\ total_duration(nodes, roots) \in Nat)
    /\ [][/\ \A n \in DOMAIN nodes' \ DOMAIN nodes :
                nodes'[n].node_type = TEST =>
                    /\ nodes'[n].result # <<>>
                    /\ nodes'[n].result[1].outcome = PENDING
                    /\ nodes'[n].result[1].duration = 0
                    /\ nodes'[n].result[1].longrepr = ""
                    /\ nodes'[n].result[1].sections = <<>>
          /\ \A n \in PendingTests(nodes) :
                n \notin PendingTests(nodes') =>
                    /\ Entered("update")
                    /\ call.report.nodeid = n
                    /\ ResultReport(call.report)]_vars

C26_Witness ==
    /\ Returned("update")
    /\ call.report.when = "setup"
    /\ call.report.passed
    /\ call.report.nodeid = IdT1
    /\ roots = <<IdF>>
    /\ nodes[IdF].children = <<IdT1>>
    /\ IdT1 \in PendingTests(nodes)

\* The nodes of the hierarchy in depth-first pre-order: the nodes of seq in
\* order, each followed by its descendants.
RECURSIVE PreOrder(_, _)
PreOrder(ns, seq) ==
    IF seq = <<>>
    THEN <<>>
    ELSE <<Head(seq)>> \o PreOrder(ns, ns[Head(seq)].children)
                       \o PreOrder(ns, Tail(seq))

\* The first node of seq whose nodeid is the given one, if there is one.
FirstWithId(ns, seq, nodeid) ==
    LET hits == {i \in 1..Len(seq) : ns[seq[i]].nodeid = nodeid}
    IN  IF hits = {}
        THEN <<>>
        ELSE <<seq[CHOOSE i \in hits : \A j \in hits : i <= j]>>

\* C27: find_by_nodeid returns the first node, in depth-first pre-order from
\* the roots, whose nodeid is the one looked up, and None exactly when no
\* node under the roots has it; the node returned has that nodeid; and the
\* call changes neither the nodes nor the roots.
C27_FindFirstInPreOrder ==
    /\ [](Returned("find") =>
            /\ call.result = FirstWithId(nodes, PreOrder(nodes, roots),
                                         call.nodeid)
            /\ call.result = <<>>
                 <=> \A n \in InTree(nodes, roots) :
                        nodes[n].nodeid # call.nodeid
            /\ call.result # <<>>
                 => nodes[call.result[1]].nodeid = call.nodeid)
    /\ [][Entered("find") => nodes' = nodes /\ roots' = roots]_vars

C27_Witness ==
    /\ Returned("find")
    /\ roots = <<"n1">>
    /\ nodes["n1"].children = <<"n2", "n4">>
    /\ nodes["n2"].children = <<"n3">>
    /\ nodes["n3"].nodeid = call.nodeid
    /\ nodes["n4"].nodeid = call.nodeid
    /\ nodes["n1"].nodeid # call.nodeid
    /\ nodes["n2"].nodeid # call.nodeid
    /\ call.result = <<"n3">>

\* C28: pytest_runtest_logreport writes lines only for a call report or a
\* failed or skipped setup report whose nodeid is found in the tree: a setup
\* report that passed, a teardown report, passed or failed, and a report
\* whose nodeid is not in the tree write nothing and leave _current_stack as
\* it is; and every report, written or not, has gone through
\* update_from_report: a failed teardown report that writes nothing still
\* makes the result of its test ERROR.
C28_WritesOnlyRendered ==
    [][Entered("logreport") =>
          LET report == call.report
          IN  /\ tw' # tw =>
                    /\ \/ report.when = "call"
                       \/ report.when = "setup"
                            /\ (report.failed \/ report.skipped)
                    /\ report.nodeid \in InTree(nodes, roots)
              /\ (report.when = "setup" /\ report.passed) =>
                    tw' = tw /\ reporter' = reporter
              /\ report.when = "teardown" =>
                    tw' = tw /\ reporter' = reporter
              /\ report.nodeid \notin InTree(nodes, roots) =>
                    tw' = tw /\ reporter' = reporter
              /\ nodes' = update_from_report(nodes, roots, report)
              /\ (report.when = "teardown" /\ report.failed
                    /\ TargetHasResult(nodes, roots, report)) =>
                    nodes'[report.nodeid].result[1].outcome = ERROR]_vars

C28_Witness ==
    /\ Returned("logreport")
    /\ call.report.when = "teardown"
    /\ call.report.failed
    /\ call.report.nodeid = IdT1
    /\ IdT1 \in InTree(nodes, roots)
    /\ nodes[IdT1].result[1].outcome = ERROR
    /\ tw = <<>>

\* The <details> elements among the elements and, at any depth, among their
\* children.
RECURSIVE DetailsIn(_)
DetailsIn(elements) ==
    IF elements = <<>>
    THEN {}
    ELSE (IF Head(elements).tag = "details" THEN {Head(elements)} ELSE {})
         \cup DetailsIn(Head(elements).children)
         \cup DetailsIn(Tail(elements))

\* The node has a test at or below it whose outcome is FAILED or ERROR.
HasFailingTest(ns, n) ==
    TestsWith(ns, TestsUnder(ns, n), {FAILED, ERROR}) # {}

\* The number of tests under the roots whose outcome is one of the given.
TreeTestsWith(ns, rs, outcomes) ==
    Cardinality(TestsWith(ns, {t \in InTree(ns, rs) : ns[t].node_type = TEST},
                          outcomes))

\* C29: in the report that generate_report writes, every describe block
\* below a file is a <details> element, and the element has the open
\* attribute exactly when a test at or below the block, at any depth, is
\* FAILED or ERROR; the summary shows total_tests, total_passed,
\* total_failed and total_skipped of the tree, which are the numbers of all
\* tests, of the PASSED, of the FAILED or ERROR and of the SKIPPED ones.
C29_OpenIffFailure ==
    Returned("generate") =>
        LET html   == files[call.path]
            blocks == {n \in InTree(nodes, roots) :
                          nodes[n].node_type = DESCRIBE}
        IN  /\ {d.display_name : d \in DetailsIn(html.tree_html)}
                 = {html_escape(nodes[n].display_name) : n \in blocks}
            /\ \A d \in DetailsIn(html.tree_html) :
                  \A n \in blocks :
                      d.display_name = html_escape(nodes[n].display_name)
                          => (d.open <=> HasFailingTest(nodes, n))
            /\ html.total = total_tests(nodes, roots)
            /\ html.passed = total_passed(nodes, roots)
            /\ html.failed = total_failed(nodes, roots)
            /\ html.skipped = total_skipped(nodes, roots)
            /\ html.total = TreeTestsWith(nodes, roots, HtmlOutcomes)
                              + Cardinality({t \in InTree(nodes, roots) :
                                               /\ nodes[t].node_type = TEST
                                               /\ nodes[t].result = <<>>})
            /\ html.passed = TreeTestsWith(nodes, roots, {PASSED})
            /\ html.failed = TreeTestsWith(nodes, roots, {FAILED, ERROR})
            /\ html.skipped = TreeTestsWith(nodes, roots, {SKIPPED})

C29_Witness ==
    /\ Returned("generate")
    /\ nodes["A"].children = <<"B", "t2">>
    /\ nodes["B"].children = <<"t1">>
    /\ nodes["t1"].result # <<>>
    /\ nodes["t1"].result[1].outcome = ERROR
    /\ nodes["t2"].result # <<>>
    /\ nodes["t2"].result[1].outcome = PASSED
    /\ \A d \in DetailsIn(files[call.path].tree_html) : d.open
    /\ files[call.path].failed = 1

\* The terminal reporter is registered with the pluginmanager of the config.
Registered(cfg) == ReporterName \in cfg.plugins

\* C30: pytest_configure registers the terminal reporter exactly when the
\* plugin is activated; the html path and the html reporter are set on the
\* config only by pytest_configure and only when the plugin is activated and
\* an html path is given, and they are set whenever it is activated and the
\* path is not empty; pytest_sessionfinish writes the report, of the tree of
\* the registered reporter and to the stored path, exactly when a path and
\* an html reporter are stored and the terminal reporter is still
\* registered, and writes nothing otherwise; no other hook writes a file.
C30_PluginLifecycle ==
    [][/\ Entered("configure") =>
             /\ Registered(config') <=> config.describe_beautifully
             /\ (config.describe_beautifully
                   /\ config.describe_html \notin {<<>>, <<"">>}) =>
                    /\ config'.html_path = config.describe_html
                    /\ config'.html_reporter # <<>>
       /\ (\/ config'.html_path # config.html_path
           \/ config'.html_reporter # config.html_reporter) =>
             /\ Entered("configure")
             /\ config.describe_beautifully
             /\ config.describe_html # <<>>
       /\ Entered("sessionfinish") =>
             IF /\ config.html_path # <<>>
                /\ config.html_reporter # <<>>
                /\ Registered(config)
             THEN /\ DOMAIN files' = {config.html_path[1]}
                  /\ files'[config.html_path[1]].total
                       = total_tests(nodes, roots)
                  /\ files'[config.html_path[1]].failed
                       = total_failed(nodes, roots)
                  /\ files'[config.html_path[1]].tree_html
                       = _render_tree(nodes, roots, DefaultSlowThreshold)
             ELSE files' = files
       /\ files' # files => Entered("sessionfinish")]_vars

C30_Witness ==
    /\ Returned("sessionfinish")
    /\ Registered(config)
    /\ config.describe_html = <<ReportPath>>
    /\ ReportPath \in DOMAIN files
    /\ files[ReportPath].total = 2
    /\ files[ReportPath].failed = 1

(***************************************************************************)
(* C31.  humanize_describe_name strips one leading "describe_" or          *)
(* "Describe_"; when nothing remains it returns the name as given; when    *)
(* the remainder starts with an upper-case letter and has no underscore it *)
(* returns the remainder; otherwise it returns the remainder with every    *)
(* underscore replaced by a space.  humanize_test_name replaces every      *)
(* underscore by a space and strips nothing.                               *)
(***************************************************************************)
Prefixed(name) ==
    /\ Len(name) >= 9
    /\ name[1] \in {"d", "D"}
    /\ \A i \in 2..9 : name[i] = LowerPrefix[i]

Spaced(s, out) ==
    /\ Len(out) = Len(s)
    /\ \A i \in 1..Len(s) :
          out[i] = (IF s[i] = "_" THEN " " ELSE s[i])

C31_Humanizers ==
    Returned("humanize") =>
        LET name == call.name
            skip == IF Prefixed(name) THEN 9 ELSE 0
            rest == [i \in 1..(Len(name) - skip) |-> name[i + skip]]
        IN  /\ Spaced(name, call.test)
            /\ IF Len(rest) = 0
               THEN call.describe = name
               ELSE IF rest[1] \in UpperCase /\ "_" \notin Range(rest)
                    THEN call.describe = rest
                    ELSE Spaced(rest, call.describe)

C31_Witness ==
    /\ Returned("humanize")
    /\ call.name = LowerPrefix \o UpperPrefix \o <<"M", "y">>
    /\ call.describe = <<"D","e","s","c","r","i","b","e"," ","M","y">>

(***************************************************************************)
(* C32.  Last writer wins across phases: every event that changes a Result *)
(* (a call event, a failed setup or teardown event, a skipped setup event) *)
(* sets the outcome and the duration from that event alone, whatever the   *)
(* earlier events left, and every other event leaves both as they were.  A *)
(* failed teardown event after a call event leaves ERROR, the teardown     *)
(* event's duration and the sections of the call event; a call event after *)
(* a failed setup event replaces ERROR by the outcome mapping of the event.*)
(***************************************************************************)
C32_LastWriterWins ==
    [][ (/\ Entered("update")
         /\ TargetHasResult(nodes, roots, call.report))
        => LET rep == call.report
               old == nodes[rep.nodeid].result[1]
               new == nodes'[rep.nodeid].result[1]
           IN  /\ nodes'[rep.nodeid].result # <<>>
               /\ IF rep.when = "call"
                  THEN /\ new.outcome = OutcomeMapping(rep)
                       /\ new.duration = rep.duration
                       /\ new.sections = rep.sections
                  ELSE IF rep.when \in {"setup", "teardown"} /\ rep.failed
                  THEN /\ new.outcome = ERROR
                       /\ new.duration = rep.duration
                       /\ new.sections = old.sections
                  ELSE IF rep.when = "setup" /\ rep.skipped
                  THEN /\ new.outcome = OutcomeMapping(rep)
                       /\ new.duration = rep.duration
                       /\ new.sections = old.sections
                  ELSE new = old ]_vars

\* A failed teardown event without sections, after a call event with
\* sections and another duration, has left ERROR, its own duration and the
\* sections of the call event.
C32_Witness ==
    /\ Returned("update")
    /\ call.report.nodeid = IdT1
    /\ call.report.when = "teardown"
    /\ call.report.failed
    /\ call.report.sections = <<>>
    /\ call.report.duration = 1
    /\ IdT1 \in InTree(nodes, roots)
    /\ nodes[IdT1].result # <<>>
    /\ nodes[IdT1].result[1].outcome = ERROR
    /\ nodes[IdT1].result[1].duration = 1
    /\ nodes[IdT1].result[1].sections = <<Section>>

(***************************************************************************)
(* C33.  Result events with different target identifiers commute: between  *)
(* two calls, applying two such events in either order yields the same     *)
(* nodes with the same Results (update_from_report never changes the       *)
(* roots).                                                                 *)
(***************************************************************************)
C33_UpdatesCommute ==
    call = Idle =>
        \A r1, r2 \in EventReports :
            r1.nodeid # r2.nodeid =>
                update_from_report(update_from_report(nodes, roots, r1),
                                   roots, r2)
                = update_from_report(update_from_report(nodes, roots, r2),
                                     roots, r1)

\* Events for two tests of the hierarchy have been applied, and an event for
\* either of them would still change its Result.
C33_Witness ==
    /\ call = Idle
    /\ {IdT1, IdT3} \subseteq InTree(nodes, roots)
    /\ nodes[IdT1].result # <<>>
    /\ nodes[IdT3].result # <<>>
    /\ nodes[IdT1].result[1].outcome = PASSED
    /\ nodes[IdT3].result[1].outcome = ERROR
    /\ \E r1, r2 \in EventReports :
          /\ r1.nodeid = IdT1
          /\ r2.nodeid = IdT3
          /\ update_from_report(nodes, roots, r1) # nodes
          /\ update_from_report(update_from_report(nodes, roots, r1),
                                roots, r2)
             # update_from_report(nodes, roots, r1)

(***************************************************************************)
(* C34.  A call of update_from_report changes at most the outcome, the     *)
(* duration, the longrepr and the sections of the Result of the one node   *)
(* whose nodeid is the report's: the Results of all other nodes, every     *)
(* node's fixture names, the roots, every children list, the registered    *)
(* nodeids and the slow threshold stay as they were.                       *)
(***************************************************************************)
C34_UpdateFrame ==
    [][ Entered("update")
        => /\ roots' = roots
           /\ slow_threshold' = slow_threshold
           /\ seen' = seen
           /\ DOMAIN nodes' = DOMAIN nodes
           /\ \A n \in DOMAIN nodes :
                 /\ [nodes'[n] EXCEPT !.result = <<>>]
                    = [nodes[n] EXCEPT !.result = <<>>]
                 /\ Len(nodes'[n].result) = Len(nodes[n].result)
                 /\ n # call.report.nodeid
                       => nodes'[n].result = nodes[n].result
                 /\ nodes[n].result # <<>>
                       => nodes'[n].result[1].fixture_names
                          = nodes[n].result[1].fixture_names ]_vars

\* A call event has changed the Result of one test while the other test of
\* the hierarchy has its Result from an earlier event.
C34_Witness ==
    /\ Returned("update")
    /\ call.report.nodeid = IdT1
    /\ call.report.when = "call"
    /\ call.report.skipped
    /\ {IdT1, IdT3} \subseteq InTree(nodes, roots)
    /\ nodes[IdT1].result # <<>>
    /\ nodes[IdT1].result[1].outcome = SKIPPED
    /\ nodes[IdT1].result[1].fixture_names = <<"db">>
    /\ nodes[IdT3].result # <<>>
    /\ nodes[IdT3].result[1].outcome = FAILED

(***************************************************************************)
(* C35.  update_from_report resolves its target by find_by_nodeid from the *)
(* roots, not through _nodes: an event of any phase whose target is a TEST *)
(* node that is registered in _nodes but cannot be reached from the roots  *)
(* changes nothing, so the Result of that node stays as it was created,    *)
(* PENDING, after any sequence of events.                                  *)
(***************************************************************************)
Orphans(ns, rs) ==
    {n \in DOMAIN ns : ns[n].node_type = TEST /\ n \notin InTree(ns, rs)}

C35_OrphanStaysPending ==
    /\ [](\A n \in Orphans(nodes, roots) :
            /\ nodes[n].result # <<>>
            /\ nodes[n].result[1].outcome = PENDING
            /\ nodes[n].result[1].duration = 0
            /\ nodes[n].result[1].sections = <<>>)
    /\ [][ (/\ Entered("update")
            /\ call.report.nodeid \in Orphans(nodes, roots))
           => nodes' = nodes ]_vars

\* A failed call event for the registered test outside the hierarchy has
\* returned, after a test of the hierarchy took a result.
C35_Witness ==
    /\ Returned("update")
    /\ call.report.nodeid = IdT2
    /\ call.report.when = "call"
    /\ call.report.failed
    /\ IdT2 \in Orphans(nodes, roots)
    /\ nodes[IdT2].result[1].outcome = PENDING
    /\ IdT1 \in InTree(nodes, roots)
    /\ nodes[IdT1].result[1].outcome = FAILED

(***************************************************************************)
(* C36.  A call of build_from_items made after result events does not      *)
(* reset or alter the Result of any node that already exists: a chain that *)
(* names known nodeids reuses the nodes with their outcome, duration,      *)
(* longrepr and sections, and only the TEST nodes the call creates start   *)
(* at PENDING.                                                             *)
(***************************************************************************)
C36_BuildKeepsResults ==
    [][ Entered("build")
        => /\ \A n \in DOMAIN nodes :
                 /\ n \in DOMAIN nodes'
                 /\ nodes'[n].result = nodes[n].result
           /\ \A n \in DOMAIN nodes' \ DOMAIN nodes :
                 nodes'[n].node_type = TEST
                     => /\ nodes'[n].result # <<>>
                        /\ nodes'[n].result[1].outcome = PENDING
                        /\ nodes'[n].result[1].duration = 0
                        /\ nodes'[n].result[1].longrepr = ""
                        /\ nodes'[n].result[1].sections = <<>> ]_vars

\* The collection that names the first test again and adds the test of
\* another file has run after a failed call event for the first test: the
\* first test keeps what the event set and the other test is PENDING.
C36_Witness ==
    /\ Returned("build")
    /\ Len(call.items) = 2
    /\ {IdT1, IdT3} \subseteq InTree(nodes, roots)
    /\ nodes[IdT1].result[1].outcome = FAILED
    /\ nodes[IdT1].result[1].duration = MaxDuration
    /\ nodes[IdT1].result[1].longrepr = "boom"
    /\ nodes[IdT1].result[1].sections = <<Section>>
    /\ nodes[IdT3].result[1].outcome = PENDING

(***************************************************************************)
(* C37.  For every node that is not a TEST, in every reachable state,      *)
(* overall_outcome is FAILED if and only if failed_count is at least 1,    *)
(* and overall_outcome is never ERROR and never XFAILED: it is one of      *)
(* PENDING, FAILED, XPASSED, SKIPPED and PASSED.                           *)
(***************************************************************************)
C37_FailedIffFailedCount ==
    \A n \in DOMAIN nodes :
        nodes[n].node_type # TEST
            => /\ (overall_outcome(nodes, n) = FAILED
                      <=> failed_count(nodes, n) >= 1)
               /\ overall_outcome(nodes, n)
                      \in {PENDING, FAILED, XPASSED, SKIPPED, PASSED}

\* A file holds a test with outcome ERROR below a describe block and a test
\* with outcome XFAILED: the block and the file are FAILED with one failed
\* test, and the file without tests is PENDING.
C37_Witness ==
    /\ {IdF, IdG, IdD, IdT1, IdT2} \subseteq InTree(nodes, roots)
    /\ nodes[IdT1].result # <<>>
    /\ nodes[IdT1].result[1].outcome = ERROR
    /\ nodes[IdT2].result # <<>>
    /\ nodes[IdT2].result[1].outcome = XFAILED
    /\ overall_outcome(nodes, IdD) = FAILED
    /\ overall_outcome(nodes, IdF) = FAILED
    /\ failed_count(nodes, IdF) = 1
    /\ overall_outcome(nodes, IdG) = PENDING

(***************************************************************************)
(* C38.  For a report that is printed, the terminal reporter writes a      *)
(* header for each block on the path of the reported nodeid that is not a  *)
(* test and is not on _current_stack, then replaces _current_stack by the  *)
(* list of the blocks on that path that are not tests: a report from the   *)
(* same blocks as the one before writes no header, the stack after a       *)
(* printed report is the enclosing blocks of the test from the outermost   *)
(* to the innermost, and the header of a block is written again when the   *)
(* block is entered again after a report from another block.               *)
(***************************************************************************)
\* The nodes of the hierarchy that are no tests and whose nodeid is the
\* first k >= 2 parts of the nodeid, from the shortest to the longest.
EnclosingBlocks(ns, rs, nodeid) ==
    LET parts == NodeidParts[nodeid]
        IsBlock(id) == id \in InTree(ns, rs) /\ ns[id].node_type # TEST
    IN  SelectSeq([k \in 1..(Len(parts) - 1) |->
                      JoinParts(SubSeq(parts, 1, k + 1))], IsBlock)

\* The report is one whose result is printed for a node of the hierarchy.
Printed(ns, rs, report) ==
    /\ \/ report.when = "call"
       \/ report.when = "setup" /\ (report.failed \/ report.skipped)
    /\ report.nodeid \in InTree(ns, rs)

\* The display names on the header lines among lines, in order.
HeaderNames(lines) ==
    LET IsHeader(line) == line.kind = "header"
        headers == SelectSeq(lines, IsHeader)
    IN  [k \in 1..Len(headers) |-> headers[k].display_name]

C38_HeadersFollowStack ==
    [][ (/\ Entered("logreport")
         /\ Printed(nodes, roots, call.report))
        => LET blocks == EnclosingBlocks(nodes', roots', call.report.nodeid)
               IsNew(b) == b \notin Range(reporter.current_stack)
               new   == SelectSeq(blocks, IsNew)
               added == SubSeq(tw', Len(tw) + 1, Len(tw'))
           IN  /\ SubSeq(tw', 1, Len(tw)) = tw
               /\ HeaderNames(added)
                      = [k \in 1..Len(new) |-> nodes'[new[k]].display_name]
               /\ \A k \in 1..Len(new) : added[k].kind = "header"
               /\ reporter'.current_stack = blocks
               /\ blocks = reporter.current_stack
                      => HeaderNames(added) = <<>> ]_vars

\* After two reports of the test in the outer block (one header Outer), a
\* report of the test without blocks and a report of the test in the inner
\* block, the header Outer is on the terminal twice and the stack holds the
\* outer block, then the inner block.
C38_Witness ==
    /\ Returned("logreport")
    /\ call.report.nodeid = "n.py::describe_Outer::describe_inner::it_works"
    /\ reporter.current_stack = <<"n.py::describe_Outer",
                                  "n.py::describe_Outer::describe_inner">>
    /\ Len(tw) = 7
    /\ HeaderNames(tw) = << <<"O", "u", "t", "e", "r">>,
                            <<"O", "u", "t", "e", "r">>,
                            <<"i", "n", "n", "e", "r">> >>
    /\ tw[1].kind = "header" /\ tw[1].indent = 0
    /\ tw[2].kind = "test" /\ tw[2].indent = 1
    /\ tw[3].kind = "test" /\ tw[3].indent = 1
    /\ tw[4].kind = "test" /\ tw[4].indent = 0
    /\ tw[5].kind = "header" /\ tw[5].indent = 0
    /\ tw[6].kind = "header" /\ tw[6].indent = 1
    /\ tw[7].kind = "test" /\ tw[7].indent = 2

(***************************************************************************)
(* C39.  When the reports of each test arrive in protocol order (a setup   *)
(* report; a call report only if the setup passed; then a teardown         *)
(* report), the terminal reporter prints exactly one result line for every *)
(* test that can be reached in the tree and has a Result: on the call      *)
(* report when the setup passed, on the setup report when the setup failed *)
(* or was skipped, and never on the teardown report.                       *)
(***************************************************************************)
\* The result lines among lines that carry the display name of the test t.
ResultLines(lines, t) ==
    Cardinality({i \in 1..Len(lines) :
                    /\ lines[i].kind = "test"
                    /\ lines[i].display_name = nodes[t].display_name})

\* The test can be reached from the roots and has a Result.
Reported(t) ==
    /\ t \in InTree(nodes, roots)
    /\ nodes[t].result # <<>>

C39_OneLinePerTest ==
    /\ [](\A t \in DOMAIN runner \cap DOMAIN nodes :
            ~(Entered("logreport") /\ call.report.nodeid = t)
                => ResultLines(tw, t)
                      = IF Reported(t) /\ runner[t] \in {"teardown", "done"}
                        THEN 1 ELSE 0)
    /\ [][ Entered("logreport")
           => LET report == call.report
                  t      == report.nodeid
                  added  == SubSeq(tw', Len(tw) + 1, Len(tw'))
              IN  /\ SubSeq(tw', 1, Len(tw)) = tw
                  /\ \A u \in DOMAIN nodes :
                        ResultLines(added, u)
                           = IF /\ u = t
                                /\ Reported(t)
                                /\ \/ report.when = "call"
                                   \/ /\ report.when = "setup"
                                      /\ ~report.passed
                             THEN 1 ELSE 0
                  /\ report.when = "teardown" => tw' = tw ]_vars

\* Every collected test has had its teardown report: one test printed on a
\* failed setup, one on a skipped setup, one on its call, each has one
\* result line, and the test outside the hierarchy has none.
C39_Witness ==
    /\ call = Idle
    /\ Cardinality(DOMAIN runner) = 4
    /\ \A t \in DOMAIN runner : runner[t] = "done"
    /\ nodes["n.py::describe_Outer::describe_inner::it_works"]
          .result[1].outcome = ERROR
    /\ nodes["n.py::describe_Outer::it_top"].result[1].outcome = SKIPPED
    /\ nodes[IdT3].result[1].outcome = PASSED
    /\ nodes[IdT2].result[1].outcome = PENDING
    /\ ResultLines(tw, "n.py::describe_Outer::describe_inner::it_works") = 1
    /\ ResultLines(tw, "n.py::describe_Outer::it_top") = 1
    /\ ResultLines(tw, IdT3) = 1
    /\ ResultLines(tw, IdT2) = 0
    /\ \E i \in 1..Len(tw) : tw[i].kind = "longrepr"

====
